---------------------------- MODULE Spec2Model ----------------------------
(***************************************************************************)
(* Verification model of the BabelDOC PDF translation pipeline             *)
(* (back/blogs/PDFMathTranslate/babeldoc).                                 *)
(*                                                                         *)
(* The pipeline is a set of loosely coupled components.  Each component    *)
(* is modelled by its own group of variables and its own specification:    *)
(*                                                                         *)
(*   SpecRL      RateLimiter.wait called by worker threads                 *)
(*   SpecTR      do_translate with the ILTranslator worker pool and a      *)
(*               caller that may cancel                                    *)
(*   SpecPI      start_parse_il inside do_translate                        *)
(*   SpecDS      DetectScannedFile.process                                 *)
(*   SpecPM      ProgressMonitor over the stages of TRANSLATE_STAGES       *)
(*   SpecSP      the subprocess wait loops of PDFCreater                   *)
(*   SpecTS      Typesetting.render_paragraph with the fit search of       *)
(*               retypeset                                                 *)
(*                                                                         *)
(* Variables of the components a specification does not exercise stay at   *)
(* their idle values.                                                      *)
(***************************************************************************)
EXTENDS Integers, Sequences, FiniteSets, TLC

VARIABLES
    \* ---- RateLimiter (document_il/translator/translator.py) ----
    max_qps,        \* RateLimiter.max_qps
    last_requests,  \* RateLimiter.last_requests, sequence of timestamps
    lock,           \* RateLimiter.lock: 0 = free, else the holding thread
    rl_clock,       \* time.time(), in ticks of 1/Second seconds
    rl_pc,          \* per thread: position inside wait()
    rl_now,         \* per thread: local variable `now`
    rl_next_time,   \* per thread: local variable `next_time`
    rl_wake,        \* per thread: earliest instant time.sleep may return
    rl_slept,       \* per thread: the running call went through time.sleep
    rl_head,        \* per thread: last_requests[0] seen by a full-window call
    rl_log,         \* history: one record per returned wait() call
    rl_unlocked,    \* history: last_requests was touched without the lock
    \* ---- do_translate / ILTranslator (high_level.py, il_translator.py) ----
    cancel_event,   \* ProgressMonitor.cancel_event.is_set()
    pm_disable,     \* ProgressMonitor.disable
    watermark_both, \* config: watermark_output_mode == WatermarkOutputMode.Both
    tr_pc,          \* position of the thread running do_translate
    tr_page,        \* page index of the running per-page loop
    tr_next,        \* next paragraph process_page will submit
    tr_exc,         \* exception propagating in do_translate ("none" if none)
    tr_result,      \* how do_translate ended ("running" until then)
    tr_events,      \* events handed to finish_callback, in order
    tr_cancelled_at,\* history: where do_translate was when the caller cancelled
    paragraph,      \* per paragraph: vertical, short, unicode, composition list
    tk_state,       \* per paragraph: state of its translate_paragraph task
    tk_after_cancel,\* history: the task started after the event was set
    tk_engine,      \* history: the task called translate_engine.translate
    tk_exc,         \* history: an exception was raised inside the task's try
    pbar_current,   \* TranslationStage.current of "Translate Paragraphs"
    tk_current,     \* per paragraph: stage.current as read by `self.current += n`
    \* ---- start_parse_il (high_level.py) ----
    pi_pages,       \* per page of the PDF: what the loop meets there
    pi_pageno,      \* loop variable pageno (1-based)
    pi_parsed,      \* pages whose content was interpreted (on_page_end ran)
    pi_raised,      \* pages whose interpretation raised
    \* ---- DetectScannedFile.process (detect_scanned_file.py) ----
    ds_pages,       \* per page to translate: result of detect_page_is_scanned
    ds_index,       \* position of the loop over pages_to_translate
    scanned,        \* local counter `scanned`
    non_scanned,    \* local counter `non_scanned`
    ds_result,      \* "running", "returned" or "ScannedPDFError"
    \* ---- ProgressMonitor (progress_monitor.py) ----
    pm_pages,       \* pages of the document
    pm_paras,       \* paragraphs to translate
    pm_fonts,       \* xref and font items FontMapper.add_font goes through
    stage,          \* ProgressMonitor.stage: run_time, current, total
    pm_running,     \* the stage whose `with` block is open, 0 if none
    pm_exited,      \* stages whose `with` block has ended
    pm_aborted,     \* a stage ended on an exception
    last_report,    \* last_report_time: "none" (0.0), "recent", "old"
    pm_report,      \* arguments of the last progress_change_callback call
    pm_nreports,    \* number of progress_change_callback calls
    \* ---- PDFCreater subprocess waits (pdf_creater.py) ----
    sp_kind,        \* which of the two functions is waiting
    sp_pc,          \* position in the wait loop
    sp_elapsed,     \* time.time() - start_time, in polls of 0.5 s
    sp_process,     \* the multiprocessing.Process
    sp_outcome,     \* "waiting", then what the function returned or raised
    sp_iterations_after_cancel, \* iterations begun with the event set
    output_path,    \* what save_pdf_with_timeout has written to output_path
    \* ---- Typesetting (typesetting.py) ----
    ts_units,       \* typesetting_units of the paragraph
    first_line_indent,          \* paragraph.first_line_indent
    ts_page,        \* the page: crop box and the other boxes on it
    ts_box_in,      \* paragraph.box when render_paragraph is entered
    paragraph_box,  \* paragraph.box
    paragraph_scale,            \* paragraph.scale
    pdf_paragraph_composition,  \* paragraph.pdf_paragraph_composition
    ts_pc,          \* position in render_paragraph / retypeset
    ts_box,         \* retypeset's local `box`
    scale,          \* retypeset's local `scale`
    line_spacing,   \* retypeset's local `line_spacing`, in tenths
    min_line_spacing,           \* retypeset's local, in tenths
    expand_space_flag,          \* retypeset's local
    use_english_line_break,     \* retypeset's parameter
    ts_calls,       \* calls of retypeset so far
    ts_relaxations, \* times the current call lowered min_line_spacing
    ts_attempts,    \* layouts the current call has computed
    ts_layout,      \* result of the last _layout_typesetting_units call
    \* ---- ILTranslator placeholders (il_translator.py) ----
    rt_paragraph,   \* the paragraph: its composition list
    disable_rich_text_translate,  \* translation_config's flag
    rt_pc,          \* position in translate_paragraph
    translate_input,            \* result of get_translate_input
    translated_text,            \* what the engine returned
    rt_result,      \* result of parse_translate_output
    \* ---- ParagraphFinder.process_page (paragraph_finder.py) ----
    pf_page,        \* page.pdf_character as handed to the finder
    split_short_lines,  \* translation_config.split_short_lines
    pf_pc,          \* position in process_page
    pf_i,           \* position of the loop over page.pdf_character
    pf_paragraphs,  \* local list `paragraphs` (lines of 1-based char numbers)
    current_paragraph,  \* index in pf_paragraphs of current_paragraph, 0 = None
    current_layout, \* id of current_layout, 0 = None
    current_line_chars, \* local list current_line_chars
    skip_chars,     \* local list skip_chars
    \* ---- _layout_typesetting_units (typesetting.py) ----
    ly_units,       \* its argument typesetting_units
    ly_box,         \* its argument box, in points
    ly_scale,       \* its argument scale, in hundredths
    ly_line_spacing,\* its argument line_spacing, in tenths
    ly_indent,      \* paragraph.first_line_indent
    ly_eng,         \* its argument use_english_line_break
    ly_pc,          \* "idle", "loop", "returned"
    ly_i,           \* index of the unit the loop is at
    ly_st,          \* its locals (current_x, ..., all_units_fit)
    \* ---- get_translate_input with its placeholder search (il_translator.py) ----
    ph_paragraph,   \* paragraph.pdf_paragraph_composition
    ph_unicode,     \* paragraph.unicode, a sequence of characters
    ph_disable,     \* disable_rich_text_translate
    ph_engine,      \* the class of translate_engine
    ph_pc,          \* "idle", "loop", "returned"
    ph_k,           \* index of the composition the loop is at
    ph_placeholder_id,  \* its local placeholder_id
    ph_placeholders,    \* its local placeholders
    ph_chars,       \* its local chars, as the characters of their text
    \* ---- ILCreater driven by PDFPageInterpreterEx (il_creater.py, pdfinterp.py) ----
    passthrough_per_char_instruction,       \* list of << operator, args >>
    passthrough_per_char_instruction_stack, \* list of such lists
    xobj_id,        \* ILCreater.xobj_id
    xobj_inc,       \* ILCreater.xobj_inc
    xobj_stack,     \* ILCreater.xobj_stack, the saved xobj ids
    ic_pc,          \* "idle", "page"
    ic_scopes,      \* history: the open q and form XObject scopes
    ic_returned,    \* history: the ids returned by on_xobj_begin
    ic_last,        \* history: the last call and the scope it closed
    ic_events,      \* number of calls made
    \* ---- process_translatable_formulas (styles_and_formulas.py) ----
    tf_paragraph,   \* paragraph.pdf_paragraph_composition before the call
    tf_pc,          \* "idle", "call", "returned"
    tf_result,      \* paragraph.pdf_paragraph_composition after the call
    \* ---- process_comma_formulas (styles_and_formulas.py) ----
    cf_paragraph,   \* paragraph.pdf_paragraph_composition before the call
    cf_pc,          \* "idle", "loop", "returned"
    cf_k,           \* index of the composition the loop visits next
    new_compositions, \* the list the loop builds
    cf_result,      \* paragraph.pdf_paragraph_composition after the call
    \* ---- _calculate_base_style (styles_and_formulas.py) ----
    bs_paragraph,   \* paragraph.pdf_paragraph_composition
    bs_pc,          \* "idle", "collect", "merge", "mode", "returned"
    bs_k,           \* index of the composition or style the loop visits next
    styles,         \* the pdf_style of the characters collected so far
    base_style      \* the local base_style, then the returned style

rlVars == << max_qps, last_requests, lock, rl_clock, rl_pc, rl_now,
             rl_next_time, rl_wake, rl_slept, rl_head, rl_log, rl_unlocked >>

trVars == << cancel_event, pm_disable, watermark_both, tr_pc, tr_page,
             tr_next, tr_exc, tr_result, tr_events, tr_cancelled_at,
             paragraph, tk_state, tk_after_cancel, tk_engine, tk_exc,
             pbar_current, tk_current >>

piVars == << pi_pages, pi_pageno, pi_parsed, pi_raised >>

dsVars == << ds_pages, ds_index, scanned, non_scanned, ds_result >>

pmVars == << pm_pages, pm_paras, pm_fonts, stage, pm_running, pm_exited,
            pm_aborted, last_report, pm_report, pm_nreports >>

spVars == << sp_kind, sp_pc, sp_elapsed, sp_process, sp_outcome,
            sp_iterations_after_cancel, output_path >>

tsVars == << ts_units, first_line_indent, ts_page, ts_box_in, paragraph_box,
            paragraph_scale, pdf_paragraph_composition, ts_pc, ts_box, scale,
            line_spacing, min_line_spacing, expand_space_flag,
            use_english_line_break, ts_calls, ts_relaxations, ts_attempts,
            ts_layout >>

rtVars == << rt_paragraph, disable_rich_text_translate, rt_pc,
            translate_input, translated_text, rt_result >>

pfVars == << pf_page, split_short_lines, pf_pc, pf_i, pf_paragraphs,
            current_paragraph, current_layout, current_line_chars, skip_chars
            >>

lyVars == << ly_units, ly_box, ly_scale, ly_line_spacing, ly_indent, ly_eng,
            ly_pc, ly_i, ly_st >>

phVars == << ph_paragraph, ph_unicode, ph_disable, ph_engine, ph_pc, ph_k,
            ph_placeholder_id, ph_placeholders, ph_chars >>

icVars == << passthrough_per_char_instruction,
            passthrough_per_char_instruction_stack, xobj_id, xobj_inc,
            xobj_stack, ic_pc, ic_scopes, ic_returned, ic_last, ic_events >>

tfVars == << tf_paragraph, tf_pc, tf_result >>

cfVars == << cf_paragraph, cf_pc, cf_k, new_compositions, cf_result >>

bsVars == << bs_paragraph, bs_pc, bs_k, styles, base_style >>

vars == << rlVars, trVars, piVars, dsVars, pmVars, spVars, tsVars, rtVars,
            pfVars, lyVars, phVars, icVars, tfVars, cfVars, bsVars >>

\* What the actions of one component leave unchanged.
nonRL == << trVars, piVars, dsVars, pmVars, spVars, tsVars, rtVars, pfVars,
            lyVars, phVars, icVars, tfVars, cfVars, bsVars >>

nonTR == << rlVars, piVars, dsVars, pmVars, spVars, tsVars, rtVars, pfVars,
            lyVars, phVars, icVars, tfVars, cfVars, bsVars >>

nonTRPI == << rlVars, dsVars, pmVars, spVars, tsVars, rtVars, pfVars, lyVars,
            phVars, icVars, tfVars, cfVars, bsVars >>

nonDS == << rlVars, trVars, piVars, pmVars, spVars, tsVars, rtVars, pfVars,
            lyVars, phVars, icVars, tfVars, cfVars, bsVars >>

nonPM == << rlVars, trVars, piVars, dsVars, spVars, tsVars, rtVars, pfVars,
            lyVars, phVars, icVars, tfVars, cfVars, bsVars >>

\* The subprocess waits share the cancel event with do_translate.
nonSP == << rlVars, piVars, dsVars, pmVars, pm_disable, watermark_both,
            tr_pc, tr_page, tr_next, tr_exc, tr_result, tr_events,
            tr_cancelled_at, paragraph, tk_state, tk_after_cancel, tk_engine,
            tk_exc, pbar_current, tk_current, tsVars, rtVars, pfVars, lyVars,
            phVars, icVars, tfVars, cfVars, bsVars >>

nonRT == << rlVars, trVars, piVars, dsVars, pmVars, spVars, tsVars, pfVars,
            lyVars, phVars, icVars, tfVars, cfVars, bsVars >>

nonPF == << rlVars, trVars, piVars, dsVars, pmVars, spVars, tsVars, rtVars,
            lyVars, phVars, icVars, tfVars, cfVars, bsVars >>

nonLY == << rlVars, trVars, piVars, dsVars, pmVars, spVars, tsVars, rtVars, pfVars,
            phVars, icVars, tfVars, cfVars, bsVars >>

nonPH == << rlVars, trVars, piVars, dsVars, pmVars, spVars, tsVars, rtVars, pfVars, lyVars,
            icVars, tfVars, cfVars, bsVars >>

nonIC == << rlVars, trVars, piVars, dsVars, pmVars, spVars, tsVars, rtVars, pfVars, lyVars, phVars,
            tfVars, cfVars, bsVars >>

nonTF == << rlVars, trVars, piVars, dsVars, pmVars, spVars, tsVars, rtVars, pfVars, lyVars, phVars, icVars,
            cfVars, bsVars >>

nonCF == << rlVars, trVars, piVars, dsVars, pmVars, spVars, tsVars, rtVars, pfVars, lyVars, phVars, icVars, tfVars,
            bsVars >>

nonBS == << rlVars, trVars, piVars, dsVars, pmVars, spVars, tsVars, rtVars, pfVars, lyVars, phVars, icVars, tfVars, cfVars >>

nonTS == << rlVars, trVars, piVars, dsVars, pmVars, spVars, rtVars, pfVars,
            lyVars, phVars, icVars, tfVars, cfVars, bsVars >>

(***************************************************************************)
(* RateLimiter                                                             *)
(***************************************************************************)
\* Ticks per second of the model clock.
Second == 2

\* Worker threads calling wait(), calls made in one run, clock horizon and
\* the largest configured QPS.
NumThreads == 2

MaxCalls == 4

MaxTime == 3

MaxQps == 2

Threads == 1..NumThreads

\* translator.py:37-38  while last_requests and now - last_requests[0] > 1.0:
\*                          last_requests.pop(0)
RECURSIVE CleanOld(_, _)
CleanOld(lr, now) ==
    IF lr # << >> /\ now - Head(lr) > Second
        THEN CleanOld(Tail(lr), now)
        ELSE lr

\* translator.py:41  len(self.last_requests) < self.max_qps
HasRoom(lr, qps) == Len(lr) < qps

\* translator.py:46  next_time = self.last_requests[0] + 1.0
NextTime_NoWindow(lr) == Head(lr)

NextTime(lr) == Head(lr) + Second

RLIdle ==
    /\ max_qps = 1
    /\ last_requests = << >>
    /\ lock = 0
    /\ rl_clock = 0
    /\ rl_pc = [t \in Threads |-> "idle"]
    /\ rl_now = [t \in Threads |-> 0]
    /\ rl_next_time = [t \in Threads |-> 0]
    /\ rl_wake = [t \in Threads |-> 0]
    /\ rl_slept = [t \in Threads |-> FALSE]
    /\ rl_head = [t \in Threads |-> -1]
    /\ rl_log = << >>
    /\ rl_unlocked = FALSE

\* RateLimiter.__init__ (translator.py:25-30) with a constant max_qps.
RLInit ==
    /\ max_qps \in 1..MaxQps
    /\ last_requests = << >>
    /\ lock = 0
    /\ rl_clock = 0
    /\ rl_pc = [t \in Threads |-> "idle"]
    /\ rl_now = [t \in Threads |-> 0]
    /\ rl_next_time = [t \in Threads |-> 0]
    /\ rl_wake = [t \in Threads |-> 0]
    /\ rl_slept = [t \in Threads |-> FALSE]
    /\ rl_head = [t \in Threads |-> -1]
    /\ rl_log = << >>
    /\ rl_unlocked = FALSE

RLStarted == Len(rl_log) + Cardinality({t \in Threads : rl_pc[t] # "idle"})

\* The wall clock advances.
RLTick ==
    /\ rl_clock < MaxTime
    /\ rl_clock' = rl_clock + 1
    /\ UNCHANGED << max_qps, last_requests, lock, rl_pc, rl_now, rl_next_time,
                    rl_wake, rl_slept, rl_head, rl_log, rl_unlocked >>
    /\ UNCHANGED nonRL

\* BaseTranslator.translate reaches _translate_rate_limiter.wait()
\* (translator.py:118): the thread now competes for the lock.
RLCall(t) ==
    /\ rl_pc[t] = "idle"
    /\ RLStarted < MaxCalls
    /\ rl_pc' = [rl_pc EXCEPT ![t] = "acquire"]
    /\ rl_slept' = [rl_slept EXCEPT ![t] = FALSE]
    /\ rl_head' = [rl_head EXCEPT ![t] = -1]
    /\ UNCHANGED << max_qps, last_requests, lock, rl_clock, rl_now,
                    rl_next_time, rl_wake, rl_log, rl_unlocked >>
    /\ UNCHANGED nonRL

\* translator.py:33  with self.lock:
LockFree_Always(l) == TRUE

LockFree(l) == l = 0

RLLock(t) ==
    /\ rl_pc[t] = "acquire"
    /\ LockFree(lock)
    /\ lock' = t
    /\ rl_pc' = [rl_pc EXCEPT ![t] = "now"]
    /\ UNCHANGED << max_qps, last_requests, rl_clock, rl_now, rl_next_time,
                    rl_wake, rl_slept, rl_head, rl_log, rl_unlocked >>
    /\ UNCHANGED nonRL

\* translator.py:34-38  now = time.time(), then drop the requests that are
\* more than one second older than `now`
RLClean(t) ==
    /\ rl_pc[t] = "now"
    /\ rl_now' = [rl_now EXCEPT ![t] = rl_clock]
    /\ last_requests' = CleanOld(last_requests, rl_clock)
    /\ rl_unlocked' = (rl_unlocked \/ lock # t)
    /\ rl_pc' = [rl_pc EXCEPT ![t] = "check"]
    /\ UNCHANGED << max_qps, lock, rl_clock, rl_next_time, rl_wake,
                    rl_slept, rl_head, rl_log >>
    /\ UNCHANGED nonRL

\* translator.py:41-43  room in the window: record `now` and return
RLAdmit(t) ==
    /\ rl_pc[t] = "check"
    /\ HasRoom(last_requests, max_qps)
    /\ last_requests' = Append(last_requests, rl_now[t])
    /\ rl_unlocked' = (rl_unlocked \/ lock # t)
    /\ rl_log' = Append(rl_log, [thread |-> t, stamp |-> rl_now[t],
                                 ret |-> rl_clock, slept |-> FALSE,
                                 head |-> -1])
    /\ lock' = IF lock = t THEN 0 ELSE lock
    /\ rl_pc' = [rl_pc EXCEPT ![t] = "idle"]
    /\ UNCHANGED << max_qps, rl_clock, rl_now, rl_next_time, rl_wake,
                    rl_slept, rl_head >>
    /\ UNCHANGED nonRL

\* translator.py:46-48  window full: compute next_time and sleep until then
RLFull(t) ==
    /\ rl_pc[t] = "check"
    /\ ~HasRoom(last_requests, max_qps)
    /\ last_requests # << >>
    /\ rl_unlocked' = (rl_unlocked \/ lock # t)
    /\ rl_next_time' = [rl_next_time EXCEPT ![t] = NextTime(last_requests)]
    /\ rl_head' = [rl_head EXCEPT ![t] = Head(last_requests)]
    /\ IF NextTime(last_requests) > rl_now[t]
          THEN /\ rl_pc' = [rl_pc EXCEPT ![t] = "sleep"]
               /\ rl_wake' = [rl_wake EXCEPT ![t] =
                                rl_clock + (NextTime(last_requests) - rl_now[t])]
          ELSE /\ rl_pc' = [rl_pc EXCEPT ![t] = "record"]
               /\ UNCHANGED rl_wake
    /\ UNCHANGED << max_qps, last_requests, lock, rl_clock, rl_now, rl_slept,
                    rl_log >>
    /\ UNCHANGED nonRL

\* translator.py:48  time.sleep(next_time - now) returns, not before the
\* requested duration has passed
RLSleep(t) ==
    /\ rl_pc[t] = "sleep"
    /\ rl_clock >= rl_wake[t]
    /\ rl_slept' = [rl_slept EXCEPT ![t] = TRUE]
    /\ rl_pc' = [rl_pc EXCEPT ![t] = "record"]
    /\ UNCHANGED << max_qps, last_requests, lock, rl_clock, rl_now,
                    rl_next_time, rl_wake, rl_head, rl_log, rl_unlocked >>
    /\ UNCHANGED nonRL

\* translator.py:49-50  pop(0); append(next_time); leave the with block
RLRecord(t) ==
    /\ rl_pc[t] = "record"
    /\ last_requests # << >>
    /\ last_requests' = Append(Tail(last_requests), rl_next_time[t])
    /\ rl_unlocked' = (rl_unlocked \/ lock # t)
    /\ rl_log' = Append(rl_log, [thread |-> t, stamp |-> rl_next_time[t],
                                 ret |-> rl_clock, slept |-> rl_slept[t],
                                 head |-> rl_head[t]])
    /\ lock' = IF lock = t THEN 0 ELSE lock
    /\ rl_pc' = [rl_pc EXCEPT ![t] = "idle"]
    /\ UNCHANGED << max_qps, rl_clock, rl_now, rl_next_time, rl_wake,
                    rl_slept, rl_head >>
    /\ UNCHANGED nonRL

(***************************************************************************)
(* do_translate, ILTranslator.translate and translate_paragraph            *)
(***************************************************************************)
\* Pages of the document, paragraphs of the document (spread over the pages
\* in page order) and threads of the ThreadPoolExecutor.
NumPages == 2

NumParas == 2

NumWorkers == 2

Pages == 1..NumPages

Paras == 1..NumParas

\* The page holding paragraph p: paragraphs are numbered in page order.
PageOf(p) == ((p - 1) * NumPages) \div NumParas + 1

ParasOf(pg) == { p \in Paras : PageOf(p) = pg }

\* The paragraphs of the model: vertical text, a lone formula, a text
\* shorter than min_text_length, an ordinary line followed by a formula.
\* `original` keeps the composition list the paragraph entered with.
ParagraphShapes ==
    { [vertical |-> TRUE,  short |-> FALSE, unicode |-> "original",
       composition |-> << "pdf_line" >>, original |-> << "pdf_line" >>],
      [vertical |-> FALSE, short |-> FALSE, unicode |-> "original",
       composition |-> << "pdf_formula" >>, original |-> << "pdf_formula" >>],
      [vertical |-> FALSE, short |-> TRUE,  unicode |-> "original",
       composition |-> << "pdf_line" >>, original |-> << "pdf_line" >>],
      [vertical |-> FALSE, short |-> FALSE, unicode |-> "original",
       composition |-> << "pdf_line", "pdf_formula" >>,
       original |-> << "pdf_line", "pdf_formula" >>] }

\* il_translator.py:236-259 and 337-344: get_translate_input returns None
\* for an empty paragraph and for a paragraph made of one formula or of one
\* already translated run; otherwise it returns a TranslateInput.
HasTranslateInput(comps) ==
    /\ comps # << >>
    /\ ~( /\ Len(comps) = 1
          /\ comps[1] \in {"pdf_formula", "pdf_same_style_unicode_characters"} )

\* il_translator.py:392-525: parse_translate_output builds a fresh list in
\* which the text becomes PdfSameStyleUnicodeCharacters and every formula
\* placeholder becomes its formula again.
ParseTranslateOutput(comps) ==
    [i \in 1..Len(comps) |->
        IF comps[i] = "pdf_formula"
            THEN "pdf_formula"
            ELSE "pdf_same_style_unicode_characters"]

\* progress_monitor.py:167-169  raise_if_cancelled
CancelRaised(ev) == ev

\* high_level.py:426  `except Exception`: asyncio.CancelledError derives from
\* BaseException and is not caught by it.
CaughtByExceptException_All(exc) == exc # "none"

CaughtByExceptException(exc) == exc = "Exception"

\* progress_monitor.py:195-197  `self.current += n` reads stage.current,
\* adds and stores: a task holds the value it read until it stores.
NotLoaded == -1

TRIdle ==
    /\ cancel_event = FALSE
    /\ pm_disable = FALSE
    /\ watermark_both = FALSE
    /\ tr_pc = "idle"
    /\ tr_page = 0
    /\ tr_next = 0
    /\ tr_exc = "none"
    /\ tr_result = "running"
    /\ tr_events = << >>
    /\ tr_cancelled_at = "never"
    /\ paragraph = << >>
    /\ tk_state = << >>
    /\ tk_after_cancel = << >>
    /\ tk_engine = << >>
    /\ tk_exc = << >>
    /\ pbar_current = 0
    /\ tk_current = << >>

\* State at the entry of do_translate (high_level.py:287), the monitor built
\* with a cancel event (high_level.py:259-268, translation_config.py:98-99).
TRInit ==
    /\ cancel_event = FALSE
    /\ pm_disable = FALSE
    /\ watermark_both \in BOOLEAN
    /\ tr_pc = "pre"
    /\ tr_page = 1
    /\ tr_next = 1
    /\ tr_exc = "none"
    /\ tr_result = "running"
    /\ tr_events = << >>
    /\ tr_cancelled_at = "never"
    /\ paragraph \in [Paras -> ParagraphShapes]
    /\ tk_state = [p \in Paras |-> "none"]
    /\ tk_after_cancel = [p \in Paras |-> FALSE]
    /\ tk_engine = [p \in Paras |-> FALSE]
    /\ tk_exc = [p \in Paras |-> FALSE]
    /\ pbar_current = 0
    /\ tk_current = [p \in Paras |-> NotLoaded]

TaskRunning(p) ==
    tk_state[p] \in {"input", "engine", "parse"} \/ tk_current[p] # NotLoaded

TaskFinished(p) == tk_state[p] \in {"done", "raised"}

\* Positions of do_translate inside ILTranslator.translate.
InTranslate == {"tr_page", "tr_submit", "tr_join"}

\* The caller sets the cancellation event (ProgressMonitor.cancel,
\* progress_monitor.py:171-176; async_translate, high_level.py:276-280).
TRCancel ==
    /\ tr_pc \notin {"idle", "end"}
    /\ ~cancel_event
    /\ cancel_event' = TRUE
    /\ tr_cancelled_at' = tr_pc
    /\ UNCHANGED << pm_disable, watermark_both, tr_pc, tr_page, tr_next,
                    tr_exc, tr_result, tr_events, paragraph, tk_state,
                    tk_after_cancel, tk_engine, tk_exc, pbar_current, tk_current >>
    /\ UNCHANGED nonTR

\* high_level.py:289-367: the stages before ILTranslator.  Each polls the
\* event per page (e.g. high_level.py:153, paragraph_finder.py:90); a stage
\* can also fail with an ordinary exception (ScannedPDFError, parse errors).
TRPreStages ==
    /\ tr_pc = "pre"
    /\ \/ /\ CancelRaised(cancel_event)
          /\ tr_exc' = "CancelledError"
          /\ tr_pc' = "except"
       \/ /\ tr_exc' = "Exception"
          /\ tr_pc' = "except"
       \/ /\ ~CancelRaised(cancel_event)
          /\ tr_exc' = "none"
          /\ tr_pc' = "tr_page"
    /\ tr_page' = 1
    /\ UNCHANGED << cancel_event, pm_disable, watermark_both, tr_next,
                    tr_result, tr_events, tr_cancelled_at, paragraph,
                    tk_state, tk_after_cancel, tk_engine, tk_exc,
                    pbar_current, tk_current >>
    /\ UNCHANGED nonTR

\* il_translator.py:141-142 and 158: the loop over docs.page; process_page
\* polls the event once, before submitting the page's paragraphs.
TRProcessPage ==
    /\ tr_pc = "tr_page"
    /\ IF tr_page > NumPages
          THEN /\ tr_pc' = "tr_join"
               /\ UNCHANGED << tr_exc, tr_next >>
          ELSE IF CancelRaised(cancel_event)
                  THEN /\ tr_exc' = "CancelledError"
                       /\ tr_pc' = "tr_join"
                       /\ UNCHANGED tr_next
                  ELSE /\ tr_pc' = "tr_submit"
                       /\ UNCHANGED << tr_exc, tr_next >>
    /\ UNCHANGED << cancel_event, pm_disable, watermark_both, tr_page,
                    tr_result, tr_events, tr_cancelled_at, paragraph,
                    tk_state, tk_after_cancel, tk_engine, tk_exc,
                    pbar_current, tk_current >>
    /\ UNCHANGED nonTR

\* il_translator.py:159-176: executor.submit for the next paragraph of the
\* page; after the last one the page loop moves on.
TRSubmit ==
    /\ tr_pc = "tr_submit"
    /\ IF tr_next \in ParasOf(tr_page)
          THEN /\ tk_state' = [tk_state EXCEPT ![tr_next] = "queued"]
               /\ tr_next' = tr_next + 1
               /\ UNCHANGED << tr_pc, tr_page >>
          ELSE /\ tr_page' = tr_page + 1
               /\ tr_pc' = "tr_page"
               /\ UNCHANGED << tk_state, tr_next >>
    /\ UNCHANGED << cancel_event, pm_disable, watermark_both, tr_exc,
                    tr_result, tr_events, tr_cancelled_at, paragraph,
                    tk_after_cancel, tk_engine, tk_exc, pbar_current, tk_current >>
    /\ UNCHANGED nonTR

\* il_translator.py:135-140: leaving `with ThreadPoolExecutor(...)` is
\* shutdown(wait=True), also when an exception is propagating.
AllTasksFinished_NoWait == TRUE

AllTasksFinished ==
    \A p \in Paras : /\ tk_state[p] \in {"none", "done", "raised"}
                     /\ tk_current[p] = NotLoaded

TRJoin ==
    /\ tr_pc = "tr_join"
    /\ AllTasksFinished
    /\ tr_pc' = IF tr_exc # "none" THEN "except"
                ELSE IF watermark_both THEN "watermark" ELSE "typeset"
    /\ tr_page' = 1
    /\ UNCHANGED << cancel_event, pm_disable, watermark_both, tr_next, tr_exc,
                    tr_result, tr_events, tr_cancelled_at, paragraph,
                    tk_state, tk_after_cancel, tk_engine, tk_exc,
                    pbar_current, tk_current >>
    /\ UNCHANGED nonTR

\* A pool thread takes the oldest queued task and runs translate_paragraph
\* up to its first statement, raise_if_cancelled (il_translator.py:535).  An
\* exception raised there is stored in the future, which nobody reads.
TaskStart(p) ==
    /\ tk_state[p] = "queued"
    /\ \A q \in Paras : q < p => tk_state[q] # "queued"
    /\ Cardinality({q \in Paras : TaskRunning(q)}) < NumWorkers
    /\ tk_after_cancel' = [tk_after_cancel EXCEPT ![p] = cancel_event]
    /\ tk_state' = [tk_state EXCEPT ![p] =
                       IF CancelRaised(cancel_event) THEN "raised" ELSE "input"]
    /\ UNCHANGED << cancel_event, pm_disable, watermark_both, tr_pc, tr_page,
                    tr_next, tr_exc, tr_result, tr_events,
                    tr_cancelled_at, paragraph, tk_engine, tk_exc,
                    pbar_current, tk_current >>
    /\ UNCHANGED nonTR

\* il_translator.py:536 and 57-58: every way out of `with PbarContext(pbar)`
\* runs pbar.advance(); il_translator.py:580-585: an exception raised inside
\* the try is logged and the body returns.  advance() begins by reading
\* stage.current (progress_monitor.py:196), outside any lock.
TaskReturn(p, raised) ==
    /\ tk_state' = [tk_state EXCEPT ![p] = "done"]
    /\ tk_exc' = [tk_exc EXCEPT ![p] = raised]
    /\ tk_current' = [tk_current EXCEPT ![p] = pbar_current]
    /\ UNCHANGED pbar_current

\* il_translator.py:538-556: vertical paragraphs, paragraphs without
\* translate input and too short texts are skipped; building the input can
\* raise (e.g. a font id missing from page_font_map).
TaskInput(p) ==
    /\ tk_state[p] = "input"
    /\ \/ /\ paragraph[p].vertical
          /\ TaskReturn(p, FALSE)
       \/ /\ ~paragraph[p].vertical
          /\ TaskReturn(p, TRUE)
       \/ /\ ~paragraph[p].vertical
          /\ ~HasTranslateInput(paragraph[p].composition)
          /\ TaskReturn(p, FALSE)
       \/ /\ ~paragraph[p].vertical
          /\ HasTranslateInput(paragraph[p].composition)
          /\ paragraph[p].short
          /\ TaskReturn(p, FALSE)
       \/ /\ ~paragraph[p].vertical
          /\ HasTranslateInput(paragraph[p].composition)
          /\ ~paragraph[p].short
          /\ tk_state' = [tk_state EXCEPT ![p] = "engine"]
          /\ UNCHANGED << tk_exc, pbar_current, tk_current >>
    /\ UNCHANGED << cancel_event, pm_disable, watermark_both, tr_pc, tr_page,
                    tr_next, tr_exc, tr_result, tr_events,
                    tr_cancelled_at, paragraph, tk_after_cancel,
                    tk_engine >>
    /\ UNCHANGED nonTR

\* il_translator.py:558-564: the engine call; it can raise, return the
\* input unchanged (nothing to do) or return a translation.
TaskEngine(p) ==
    /\ tk_state[p] = "engine"
    /\ tk_engine' = [tk_engine EXCEPT ![p] = TRUE]
    /\ \/ TaskReturn(p, TRUE)
       \/ TaskReturn(p, FALSE)
       \/ /\ tk_state' = [tk_state EXCEPT ![p] = "parse"]
          /\ UNCHANGED << tk_exc, pbar_current, tk_current >>
    /\ UNCHANGED << cancel_event, pm_disable, watermark_both, tr_pc, tr_page,
                    tr_next, tr_exc, tr_result, tr_events,
                    tr_cancelled_at, paragraph, tk_after_cancel >>
    /\ UNCHANGED nonTR

\* progress_monitor.py:196  the store of `self.current += n`: the value read
\* plus one, whatever other threads stored in between.  stage_update then
\* reports under the monitor's lock and the worker is free again.
TaskAdvance(p) ==
    /\ tk_current[p] # NotLoaded
    /\ pbar_current' = tk_current[p] + 1
    /\ tk_current' = [tk_current EXCEPT ![p] = NotLoaded]
    /\ UNCHANGED << cancel_event, pm_disable, watermark_both, tr_pc, tr_page,
                    tr_next, tr_exc, tr_result, tr_events, tr_cancelled_at,
                    paragraph, tk_state, tk_after_cancel, tk_engine, tk_exc >>
    /\ UNCHANGED nonTR

\* il_translator.py:566-579: paragraph.unicode is replaced first, then the
\* composition list is replaced by the parsed output, unless parsing raises.
KeptOnError_Cleared(comps) == << >>

KeptOnError(comps) == comps

TaskParse(p) ==
    /\ tk_state[p] = "parse"
    /\ \/ /\ paragraph' = [paragraph EXCEPT
                ![p].unicode = "translated",
                ![p].composition = KeptOnError(paragraph[p].composition)]
          /\ TaskReturn(p, TRUE)
       \/ /\ paragraph' = [paragraph EXCEPT
                ![p].unicode = "translated",
                ![p].composition = ParseTranslateOutput(paragraph[p].composition)]
          /\ TaskReturn(p, FALSE)
    /\ UNCHANGED << cancel_event, pm_disable, watermark_both, tr_pc, tr_page,
                    tr_next, tr_exc, tr_result, tr_events,
                    tr_cancelled_at, tk_after_cancel, tk_engine >>
    /\ UNCHANGED nonTR

\* high_level.py:386-389 and 441-468: generate_first_page_with_watermark
\* disables the shared monitor, typesets and writes a copy of the first
\* page, and enables the monitor again.  Typesetting polls the event
\* (typesetting.py:438); when it raises, disable stays set.
TRWatermark ==
    /\ tr_pc = "watermark"
    /\ IF CancelRaised(cancel_event)
          THEN /\ pm_disable' = TRUE
               /\ tr_exc' = "CancelledError"
               /\ tr_pc' = "except"
          ELSE /\ pm_disable' = FALSE
               /\ tr_pc' = "typeset"
               /\ UNCHANGED tr_exc
    /\ UNCHANGED << cancel_event, watermark_both, tr_page, tr_next, tr_result,
                    tr_events, tr_cancelled_at, paragraph, tk_state,
                    tk_after_cancel, tk_engine, tk_exc, pbar_current, tk_current >>
    /\ UNCHANGED nonTR

\* typesetting.py:436-440: Typesetting.typsetting_document polls the event
\* before each page.
TRTypesetPage ==
    /\ tr_pc = "typeset"
    /\ IF tr_page > NumPages
          THEN /\ tr_pc' = "write"
               /\ tr_page' = 1
               /\ UNCHANGED tr_exc
          ELSE IF CancelRaised(cancel_event)
                  THEN /\ tr_exc' = "CancelledError"
                       /\ tr_pc' = "except"
                       /\ UNCHANGED tr_page
                  ELSE /\ tr_page' = tr_page + 1
                       /\ UNCHANGED << tr_pc, tr_exc >>
    /\ UNCHANGED << cancel_event, pm_disable, watermark_both, tr_next,
                    tr_result, tr_events, tr_cancelled_at, paragraph,
                    tk_state, tk_after_cancel, tk_engine, tk_exc,
                    pbar_current, tk_current >>
    /\ UNCHANGED nonTR

\* pdf_creater.py:650-651, 745, 768 and 786: PDFCreater.write polls the
\* event before each page, after the page loop, before the mono save and
\* before the dual save (tr_page runs over these NumPages + 3 polls).
TRWrite ==
    /\ tr_pc = "write"
    /\ IF tr_page > NumPages + 3
          THEN /\ tr_pc' = "done"
               /\ UNCHANGED << tr_exc, tr_page >>
          ELSE IF CancelRaised(cancel_event)
                  THEN /\ tr_exc' = "CancelledError"
                       /\ tr_pc' = "except"
                       /\ UNCHANGED tr_page
                  ELSE /\ tr_page' = tr_page + 1
                       /\ UNCHANGED << tr_pc, tr_exc >>
    /\ UNCHANGED << cancel_event, pm_disable, watermark_both, tr_next,
                    tr_result, tr_events, tr_cancelled_at, paragraph,
                    tk_state, tk_after_cancel, tk_engine, tk_exc,
                    pbar_current, tk_current >>
    /\ UNCHANGED nonTR

\* high_level.py:424-425 and progress_monitor.py:155-159: translate_done
\* hands a "finish" event to finish_callback, then do_translate returns.
TRDone ==
    /\ tr_pc = "done"
    /\ tr_events' = IF pm_disable THEN tr_events
                    ELSE Append(tr_events, [type |-> "finish", error |-> "none",
                                            by |-> "translate_done"])
    /\ tr_result' = "returned"
    /\ tr_pc' = "finally"
    /\ UNCHANGED << cancel_event, pm_disable, watermark_both, tr_page, tr_next,
                    tr_exc, tr_cancelled_at, paragraph, tk_state,
                    tk_after_cancel, tk_engine, tk_exc, pbar_current, tk_current >>
    /\ UNCHANGED nonTR

\* high_level.py:426-429 and progress_monitor.py:161-165: an Exception is
\* reported through translate_error and re-raised; any other exception
\* passes the handler untouched.
TRExcept ==
    /\ tr_pc = "except"
    /\ tr_events' = IF CaughtByExceptException(tr_exc) /\ ~pm_disable
                       THEN Append(tr_events, [type |-> "error", error |-> tr_exc,
                                               by |-> "translate_error"])
                       ELSE tr_events
    /\ tr_result' = tr_exc
    /\ tr_pc' = "finally"
    /\ UNCHANGED << cancel_event, pm_disable, watermark_both, tr_page, tr_next,
                    tr_exc, tr_cancelled_at, paragraph, tk_state,
                    tk_after_cancel, tk_engine, tk_exc, pbar_current, tk_current >>
    /\ UNCHANGED nonTR

\* high_level.py:430-433 and progress_monitor.py:83-91: on_finish.  Unless
\* the monitor is disabled it sets the cancel event, then reports an
\* "error" event carrying CancelledError because the event is set.
TRFinally ==
    /\ tr_pc = "finally"
    /\ IF pm_disable
          THEN UNCHANGED << cancel_event, tr_events >>
          ELSE /\ cancel_event' = TRUE
               /\ tr_events' = Append(tr_events,
                                 [type |-> "error", error |-> "CancelledError",
                                  by |-> "on_finish"])
    /\ tr_pc' = "end"
    /\ UNCHANGED << pm_disable, watermark_both, tr_page, tr_next, tr_exc,
                    tr_result, tr_cancelled_at, paragraph, tk_state,
                    tk_after_cancel, tk_engine, tk_exc, pbar_current, tk_current >>
    /\ UNCHANGED nonTR

(***************************************************************************)
(* start_parse_il: the page loop that builds the IL                        *)
(***************************************************************************)
\* Pages of the input PDF.
NumDocPages == 3

DocPages == 1..NumDocPages

\* What the loop meets on a page: a page outside the requested ranges, a
\* page larger than 1200 x 2000, a page whose content stream makes
\* PDFPageInterpreterEx raise, an ordinary page.
PageKinds == {"not_selected", "too_large", "unreadable", "ok"}

\* high_level.py:138-151: pages the loop passes over before interpreting.
SkippedBeforeParse(kind) == kind \in {"not_selected", "too_large"}

\* pdfinterp.py:398-474: execute catches PSEOF only; high_level.py:195 calls
\* interpreter.process_page outside any try block, so whatever else the
\* interpreter raises leaves start_parse_il.
ProcessPageRaises(kind) == kind = "unreadable"

PIIdle ==
    /\ pi_pages = << >>
    /\ pi_pageno = 0
    /\ pi_parsed = {}
    /\ pi_raised = {}

\* Entry of start_parse_il (high_level.py:101-133), called by do_translate
\* (high_level.py:311-318).
PIInit ==
    /\ pi_pages \in [DocPages -> PageKinds]
    /\ pi_pageno = 1
    /\ pi_parsed = {}
    /\ pi_raised = {}

TRInitParse ==
    /\ cancel_event = FALSE
    /\ pm_disable = FALSE
    /\ watermark_both = FALSE
    /\ tr_pc = "parse"
    /\ tr_page = 0
    /\ tr_next = 0
    /\ tr_exc = "none"
    /\ tr_result = "running"
    /\ tr_events = << >>
    /\ tr_cancelled_at = "never"
    /\ paragraph = << >>
    /\ tk_state = << >>
    /\ tk_after_cancel = << >>
    /\ tk_engine = << >>
    /\ tk_exc = << >>
    /\ pbar_current = 0
    /\ tk_current = << >>

\* high_level.py:135-197: one iteration of the page loop.
PIPage ==
    /\ tr_pc = "parse"
    /\ pi_pageno <= NumDocPages
    /\ IF SkippedBeforeParse(pi_pages[pi_pageno])
          THEN /\ pi_pageno' = pi_pageno + 1
               /\ UNCHANGED << pi_parsed, pi_raised, tr_pc, tr_exc >>
          ELSE IF CancelRaised(cancel_event)
                  THEN /\ tr_exc' = "CancelledError"
                       /\ tr_pc' = "except"
                       /\ UNCHANGED << pi_pageno, pi_parsed, pi_raised >>
                  ELSE IF ProcessPageRaises(pi_pages[pi_pageno])
                          THEN /\ pi_raised' = pi_raised \cup {pi_pageno}
                               /\ tr_exc' = "Exception"
                               /\ tr_pc' = "except"
                               /\ UNCHANGED << pi_pageno, pi_parsed >>
                          ELSE /\ pi_parsed' = pi_parsed \cup {pi_pageno}
                               /\ pi_pageno' = pi_pageno + 1
                               /\ UNCHANGED << pi_raised, tr_pc, tr_exc >>
    /\ pi_pages' = pi_pages
    /\ UNCHANGED << cancel_event, pm_disable, watermark_both, tr_page, tr_next,
                    tr_result, tr_events, tr_cancelled_at, paragraph,
                    tk_state, tk_after_cancel, tk_engine, tk_exc,
                    pbar_current, tk_current >>
    /\ UNCHANGED nonTRPI

\* high_level.py:198-199: il_creater.on_finish() after the last page; the IL
\* is complete and do_translate goes on with the next stage.
PIFinish ==
    /\ tr_pc = "parse"
    /\ pi_pageno > NumDocPages
    /\ tr_pc' = "parsed"
    /\ UNCHANGED << pi_pages, pi_pageno, pi_parsed, pi_raised >>
    /\ UNCHANGED << cancel_event, pm_disable, watermark_both, tr_page, tr_next,
                    tr_exc, tr_result, tr_events, tr_cancelled_at, paragraph,
                    tk_state, tk_after_cancel, tk_engine, tk_exc,
                    pbar_current, tk_current >>
    /\ UNCHANGED nonTRPI

(***************************************************************************)
(* DetectScannedFile.process                                               *)
(***************************************************************************)
\* Largest number of pages to translate.
MaxScanPages == 5

\* detect_scanned_file.py:75-76  threshold = max(0.8 * total, 1), kept as
\* five times its value so that it stays an integer.  (0.8 * total is a
\* double; its comparisons with the integer counters agree with those of
\* the exact product.)
Threshold5(total) == IF 4 * total > 5 THEN 4 * total ELSE 5

\* detect_scanned_file.py:85  scanned < threshold and
\*                            non_scanned < non_scanned_threshold
KeepDetecting(sc, ns, total) ==
    /\ 5 * sc < Threshold5(total)
    /\ 5 * ns < 5 * total - Threshold5(total)

\* detect_scanned_file.py:97  scanned > threshold
TooManyScanned(sc, total) == 5 * sc > Threshold5(total)

DSIdle ==
    /\ ds_pages = << >>
    /\ ds_index = 0
    /\ scanned = 0
    /\ non_scanned = 0
    /\ ds_result = "idle"

\* detect_scanned_file.py:68-79.  ds_pages[i] is what detect_page_is_scanned
\* answers for the i-th page to translate.
DSInit ==
    /\ \E total \in 1..MaxScanPages : ds_pages \in [1..total -> BOOLEAN]
    /\ ds_index = 1
    /\ scanned = 0
    /\ non_scanned = 0
    /\ ds_result = "running"

\* detect_scanned_file.py:84-95: one iteration of the loop over the pages.
DSPage ==
    /\ ds_result = "running"
    /\ ds_index <= Len(ds_pages)
    /\ IF KeepDetecting(scanned, non_scanned, Len(ds_pages))
          THEN IF ds_pages[ds_index]
                  THEN /\ scanned' = scanned + 1
                       /\ UNCHANGED non_scanned
                  ELSE /\ non_scanned' = non_scanned + 1
                       /\ UNCHANGED scanned
          ELSE /\ non_scanned' = non_scanned + 1
               /\ UNCHANGED scanned
    /\ ds_index' = ds_index + 1
    /\ UNCHANGED << ds_pages, ds_result >>
    /\ UNCHANGED nonDS

\* detect_scanned_file.py:97-102: the verdict after the loop.
DSVerdict ==
    /\ ds_result = "running"
    /\ ds_index > Len(ds_pages)
    /\ ds_result' = IF TooManyScanned(scanned, Len(ds_pages))
                       THEN "ScannedPDFError" ELSE "returned"
    /\ UNCHANGED << ds_pages, ds_index, scanned, non_scanned >>
    /\ UNCHANGED nonDS

(***************************************************************************)
(* ProgressMonitor: stages and the overall progress it reports             *)
(***************************************************************************)
\* Sizes of the document the stages run over.
MaxPMPages == 2

MaxPMParas == 4

MaxFontItems == 2

\* high_level.py:48-61  TRANSLATE_STAGES, weights in hundredths.
TRANSLATE_STAGES ==
    << [name |-> "Parse PDF and Create Intermediate Representation", weight |-> 535],
       [name |-> "DetectScannedFile", weight |-> 50],
       [name |-> "Parse Page Layout", weight |-> 642],
       [name |-> "Parse Paragraphs", weight |-> 214],
       [name |-> "Parse Formulas and Styles", weight |-> 112],
       [name |-> "Remove Char Descent", weight |-> 15],
       [name |-> "Translate Paragraphs", weight |-> 7516],
       [name |-> "Typesetting", weight |-> 384],
       [name |-> "Add Fonts", weight |-> 65],
       [name |-> "Generate drawing instructions", weight |-> 141],
       [name |-> "Subset font", weight |-> 129],
       [name |-> "Save PDF", weight |-> 245] >>

Stages == 1..Len(TRANSLATE_STAGES)

RECURSIVE SumWeights(_)
SumWeights(S) ==
    IF S = {} THEN 0
    ELSE LET s == CHOOSE x \in S : TRUE
         IN  TRANSLATE_STAGES[s].weight + SumWeights(S \ {s})

\* progress_monitor.py:24  total_weight; a stage's normalized weight is
\* TRANSLATE_STAGES[s].weight / total_weight.
total_weight == SumWeights(Stages)

\* The `total` each stage passes to stage_start: the number of pages for the
\* page loops, the number of paragraphs for the translation, the xref and
\* font items plus the pages for FontMapper.add_font, 1 and 2 for the two
\* stages of PDFCreater.write.
StageTotal(s, pages, paras, fonts) ==
    CASE s = 7 -> paras
      [] s = 9 -> fonts + pages
      [] s = 11 -> 1
      [] s = 12 -> 2
      [] OTHER -> pages

\* A progress value p is kept as the fraction n / d of total_weight / 100,
\* that is p = 100 * n / (d * total_weight).
\* progress_monitor.py:119-121
CompletedStages(st) ==
    {s \in Stages : st[s].run_time > 0 /\ st[s].current = st[s].total}

\* progress_monitor.py:117-135  calculate_current_progress(stage); cur = 0
\* stands for stage=None.
calculate_current_progress(st, cur) ==
    IF CompletedStages(st) = Stages
       THEN [n |-> total_weight, d |-> 1]
       ELSE IF cur # 0 /\ st[cur].total > 0
               THEN [n |-> SumWeights(CompletedStages(st)) * st[cur].total
                             + TRANSLATE_STAGES[cur].weight * st[cur].current,
                     d |-> st[cur].total]
               ELSE [n |-> SumWeights(CompletedStages(st)), d |-> 1]

\* progress_monitor.py:142  the update is dropped when the last report is
\* younger than report_interval and the stage has more than 3 items.
Throttled(since, total) == since = "recent" /\ total > 3

NoReport == [type |-> "none"]

PMIdle ==
    /\ pm_pages = 0
    /\ pm_paras = 0
    /\ pm_fonts = 0
    /\ stage = << >>
    /\ pm_running = 0
    /\ pm_exited = {}
    /\ pm_aborted = FALSE
    /\ last_report = "none"
    /\ pm_report = NoReport
    /\ pm_nreports = 0

\* progress_monitor.py:12-52, 180-187
PMInit ==
    /\ pm_pages \in 1..MaxPMPages
    /\ pm_paras \in 1..MaxPMParas
    /\ pm_fonts \in 1..MaxFontItems
    /\ stage = [s \in Stages |-> [run_time |-> 0, current |-> 0, total |-> 0]]
    /\ pm_running = 0
    /\ pm_exited = {}
    /\ pm_aborted = FALSE
    /\ last_report = "none"
    /\ pm_report = NoReport
    /\ pm_nreports = 0

\* progress_monitor.py:54-75  stage_start, called by the pipeline for the
\* stages in their order.
PMStageStart(s) ==
    /\ pm_running = 0
    /\ ~pm_aborted
    /\ s \notin pm_exited
    /\ \A r \in Stages : r < s => r \in pm_exited
    /\ LET total == StageTotal(s, pm_pages, pm_paras, pm_fonts)
           st == [stage EXCEPT ![s] = [run_time |-> @.run_time + 1,
                                       current |-> 0,
                                       total |-> total]]
       IN  /\ stage' = st
           /\ pm_report' = [type |-> "progress_start", stage |-> s,
                            stage_current |-> 0, stage_total |-> total,
                            overall_progress |-> calculate_current_progress(st, 0)]
    /\ pm_nreports' = pm_nreports + 1
    /\ last_report' = "none"
    /\ pm_running' = s
    /\ UNCHANGED << pm_pages, pm_paras, pm_fonts, pm_exited, pm_aborted >>
    /\ UNCHANGED nonPM

\* progress_monitor.py:195-197 and 137-153  advance(1): the counter moves,
\* then stage_update reports unless the update is throttled.
PMAdvance ==
    /\ pm_running # 0
    /\ stage[pm_running].current < stage[pm_running].total
    /\ LET s == pm_running
           st == [stage EXCEPT ![s].current = @ + 1]
       IN  /\ stage' = st
           /\ IF Throttled(last_report, st[s].total)
                 THEN UNCHANGED << pm_report, pm_nreports, last_report >>
                 ELSE /\ pm_report' =
                            [type |-> "progress_update", stage |-> s,
                             stage_current |-> st[s].current,
                             stage_total |-> st[s].total,
                             overall_progress |-> calculate_current_progress(st, s)]
                      /\ pm_nreports' = pm_nreports + 1
                      /\ last_report' = "recent"
    /\ UNCHANGED << pm_pages, pm_paras, pm_fonts, pm_running, pm_exited,
                    pm_aborted >>
    /\ UNCHANGED nonPM

\* progress_monitor.py:141  report_interval goes by since the last report.
PMTick ==
    /\ pm_running # 0
    /\ last_report = "recent"
    /\ last_report' = "old"
    /\ UNCHANGED << pm_pages, pm_paras, pm_fonts, stage, pm_running,
                    pm_exited, pm_aborted, pm_report, pm_nreports >>
    /\ UNCHANGED nonPM

\* progress_monitor.py:192-193 and 93-115  the stage's `with` block ends
\* after its last item: stage_done reports progress_end.
PMStageDone ==
    /\ pm_running # 0
    /\ stage[pm_running].current = stage[pm_running].total
    /\ pm_report' = [type |-> "progress_end", stage |-> pm_running,
                     stage_current |-> stage[pm_running].total,
                     stage_total |-> stage[pm_running].total,
                     overall_progress |-> calculate_current_progress(stage, 0)]
    /\ pm_nreports' = pm_nreports + 1
    /\ last_report' = "none"
    /\ pm_exited' = pm_exited \cup {pm_running}
    /\ pm_running' = 0
    /\ UNCHANGED << pm_pages, pm_paras, pm_fonts, stage, pm_aborted >>
    /\ UNCHANGED nonPM

\* progress_monitor.py:98-106  an exception leaves the `with` block before
\* the last item while the cancel event is not set: stage_done only logs a
\* warning, and the pipeline stops.
PMStageAbort ==
    /\ pm_running # 0
    /\ stage[pm_running].current # stage[pm_running].total
    /\ last_report' = "none"
    /\ pm_exited' = pm_exited \cup {pm_running}
    /\ pm_running' = 0
    /\ pm_aborted' = TRUE
    /\ UNCHANGED << pm_pages, pm_paras, pm_fonts, stage, pm_report,
                    pm_nreports >>
    /\ UNCHANGED nonPM

(***************************************************************************)
(* PDFCreater: waiting for the font-subsetting and the save subprocess     *)
(***************************************************************************)
\* Time is counted in polls of the wait loop: time.sleep(0.5).
\* pdf_creater.py:450  timeout = 60 seconds.
SubsetTimeout == 120

\* pdf_creater.py:504  timeout: int = 120 seconds.
SaveTimeout == 240

WaitKinds == {"subset_fonts_in_subprocess", "save_pdf_with_timeout"}

Timeout(kind) ==
    IF kind = "subset_fonts_in_subprocess" THEN SubsetTimeout ELSE SaveTimeout

\* pdf_creater.py:454, 553  time.time() - start_time > timeout
TimedOut(kind, elapsed) == elapsed > Timeout(kind)

\* pdf_creater.py:476-492, 591-634: what the function does once the
\* subprocess has exited by itself.  `ok` stands for exit code 0 with a
\* non-empty output file, `raises` for an exception in the copy or in the
\* fallback save.
AfterExit(kind, ok, raises) ==
    IF kind = "subset_fonts_in_subprocess"
       THEN IF ok THEN "subsetted_pdf" ELSE "original_pdf"
       ELSE IF ok
               THEN IF raises THEN "False_direct_save" ELSE "True"
               ELSE IF raises THEN "False_basic_save" ELSE "False_unclean_save"

AfterTimeout_True(kind, raises) ==
    IF kind = "subset_fonts_in_subprocess" THEN "original_pdf" ELSE "True"

\* pdf_creater.py:472, 573-587: what the function returns after a timeout.
AfterTimeout(kind, raises) ==
    IF kind = "subset_fonts_in_subprocess"
       THEN "original_pdf"
       ELSE IF raises THEN "False_basic_save" ELSE "False_unclean_save"

\* pdf_creater.py:573-587, 607-632: the file each return path of
\* save_pdf_with_timeout leaves at output_path: the copy of the cleaned
\* temp_output, the save with clean=False, or the plain pdf.save.
\* subset_fonts_in_subprocess writes no file there.
WrittenBy(outcome) ==
    CASE outcome = "True" -> "clean_copy"
      [] outcome = "False_unclean_save" -> "unclean_save"
      [] outcome \in {"False_direct_save", "False_basic_save"} -> "basic_save"
      [] OTHER -> "unwritten"

SPIdle ==
    /\ output_path = "unwritten"
    /\ sp_kind = "none"
    /\ sp_pc = "idle"
    /\ sp_elapsed = 0
    /\ sp_process = "none"
    /\ sp_outcome = "none"
    /\ sp_iterations_after_cancel = 0

\* pdf_creater.py:433-451, 519-550: the subprocess is started and
\* start_time taken; nobody has cancelled yet.
SPInit ==
    /\ output_path = "unwritten"
    /\ sp_kind \in WaitKinds
    /\ sp_pc = "while"
    /\ sp_elapsed = 0
    /\ sp_process = "alive"
    /\ sp_outcome = "waiting"
    /\ sp_iterations_after_cancel = 0

\* The caller cancels while the function waits (progress_monitor.py:171-176).
SPCancel ==
    /\ sp_pc \in {"while", "if_timeout", "sleep"}
    /\ ~cancel_event
    /\ cancel_event' = TRUE
    /\ UNCHANGED << sp_kind, sp_pc, sp_elapsed, sp_process, sp_outcome,
                    sp_iterations_after_cancel, output_path >>
    /\ UNCHANGED nonSP

\* The subprocess ends by itself.
SPProcessExits ==
    /\ sp_outcome = "waiting"
    /\ sp_process = "alive"
    /\ \E ok \in BOOLEAN : sp_process' = IF ok THEN "exited_ok" ELSE "exited_failed"
    /\ UNCHANGED << sp_kind, sp_pc, sp_elapsed, sp_outcome,
                    sp_iterations_after_cancel, cancel_event, output_path >>
    /\ UNCHANGED nonSP

\* pdf_creater.py:453, 552  while process.is_alive(): one more iteration
\* begins, or the loop is left (476-492, 591-634).
SPWhile ==
    /\ sp_pc = "while"
    /\ IF sp_process = "alive"
          THEN /\ sp_pc' = "if_timeout"
               /\ sp_iterations_after_cancel' =
                     IF cancel_event THEN sp_iterations_after_cancel + 1
                                     ELSE sp_iterations_after_cancel
               /\ UNCHANGED sp_outcome
          ELSE /\ sp_pc' = "returned"
               /\ \E raises \in BOOLEAN :
                     sp_outcome' = AfterExit(sp_kind, sp_process = "exited_ok", raises)
               /\ UNCHANGED sp_iterations_after_cancel
    /\ output_path' = WrittenBy(sp_outcome')
    /\ UNCHANGED << sp_kind, sp_elapsed, sp_process, cancel_event >>
    /\ UNCHANGED nonSP

\* pdf_creater.py:454-472, 553-587  the timeout test; past the timeout the
\* subprocess is terminated, killed if it survives join(5), and the function
\* returns its fallback.
SPIfTimeout ==
    /\ sp_pc = "if_timeout"
    /\ IF TimedOut(sp_kind, sp_elapsed)
          THEN /\ sp_pc' = "returned"
               /\ \E survives \in BOOLEAN :
                     sp_process' = IF sp_process = "alive"
                                      THEN IF survives THEN "killed" ELSE "terminated"
                                      ELSE sp_process
               /\ \E raises \in BOOLEAN :
                     sp_outcome' = AfterTimeout(sp_kind, raises)
          ELSE /\ sp_pc' = "sleep"
               /\ UNCHANGED << sp_process, sp_outcome >>
    /\ output_path' = WrittenBy(sp_outcome')
    /\ UNCHANGED << sp_kind, sp_elapsed, sp_iterations_after_cancel,
                    cancel_event >>
    /\ UNCHANGED nonSP

\* pdf_creater.py:474, 589  time.sleep(0.5)
SPSleep ==
    /\ sp_pc = "sleep"
    /\ sp_elapsed' = sp_elapsed + 1
    /\ sp_pc' = "while"
    /\ UNCHANGED << sp_kind, sp_process, sp_outcome,
                    sp_iterations_after_cancel, cancel_event, output_path >>
    /\ UNCHANGED nonSP

(***************************************************************************)
(* Typesetting: typesetting units and their layout in a box                *)
(***************************************************************************)
\* Longest list of typesetting units of a paragraph.
MaxUnits == 2

\* A typesetting unit holds one of: an original character (char), a formula
\* (formular), a translated character (unicode).  `unicode` is the value of
\* try_get_unicode, "" standing for None; characters outside ASCII are
\* written by their code point.  Widths, heights and font sizes are in
\* points, at scale 1.
UnitKinds ==
    { [src |-> "unicode",  unicode |-> "a",      width |-> 6,  height |-> 10, font_size |-> 10],
      [src |-> "unicode",  unicode |-> " ",      width |-> 3,  height |-> 10, font_size |-> 10],
      [src |-> "unicode",  unicode |-> "(",      width |-> 4,  height |-> 10, font_size |-> 10],
      [src |-> "unicode",  unicode |-> "U+4E2D", width |-> 10, height |-> 10, font_size |-> 10],
      [src |-> "formular", unicode |-> "",       width |-> 12, height |-> 14, font_size |-> 0],
      [src |-> "char",     unicode |-> "b",      width |-> 5,  height |-> 8,  font_size |-> 8] }

\* typesetting.py:76-86
mixed_character_blacklist(u) ==
    u.unicode \in {"U+3002", "U+FF0C", "U+FF1A", "U+FF1F", "U+FF01"}

\* typesetting.py:89-95  re.match(r"^[a-zA-Z0-9]+$", unicode)
LatinOrDigit == {"a", "b"}

can_break_line(u) == u.unicode = "" \/ u.unicode \notin LatinOrDigit

\* typesetting.py:98-143  the listed punctuation, or a character whose
\* Unicode name holds "CJK UNIFIED IDEOGRAPH" or "FULLWIDTH".
CJKNamed == {"U+4E2D"}

is_chinese_char(u) ==
    /\ u.src # "formular"
    /\ u.unicode # ""
    /\ \/ u.unicode \in
            {"U+FF08", "U+FF09", "U+3010", "U+3011", "U+300A", "U+300B",
             "U+3014", "U+3015", "U+3008", "U+3009", "U+3016", "U+3017",
             "U+300C", "U+300D", "U+300E", "U+300F", "U+3001", "U+3002",
             "U+FF1A", "U+FF1F", "U+FF01", "U+FF0C"}
       \/ u.unicode \in CJKNamed

\* typesetting.py:146-150
is_space(u) == u.src # "formular" /\ u.unicode = " "

\* typesetting.py:153-210
is_hung_punctuation(u) ==
    /\ u.src # "formular"
    /\ u.unicode \in
          {",", ".", ":", ";", "?", "!", "U+FF0C", "U+3002", "U+FF0E",
           "U+3001", "U+FF1A", "U+FF1B", "U+FF01", "U+203C", "U+FF1F",
           "U+2047", "U+201D", "U+2019", "U+300D", "U+300F", ")", "]", "}",
           "U+FF09", "U+3015", "U+3009", "U+3011", "U+3017", "U+FF3D",
           "U+FF5D", "U+300B", "U+FF5E", "-", "U+2013", "U+2014", "U+00B7",
           "U+30FB", "U+2027", "/", "U+FF0F", "U+2044"}

\* typesetting.py:213-237
is_cannot_appear_in_line_end_punctuation(u) ==
    /\ u.src # "formular"
    /\ u.unicode \in
          {"U+201C", "U+2018", "U+300C", "U+300E", "(", "[", "{", "U+FF08",
           "U+3014", "U+3008", "U+300A", "U+3016", "U+3018", "U+301A"}

can_passthrough_CharOnly(u) == u.src = "char"

\* typesetting.py:250-251
can_passthrough(u) == u.src # "unicode"

\* Lengths are kept as integers: a length of v points is the integer
\* v * 2000 * n, n being the number of units of the paragraph.  Every
\* product and quotient of the layout (scale in hundredths, line spacing in
\* tenths, half and quarter space widths, the average height over n units)
\* is then exact.
Pt(v, n) == v * 2000 * n

\* typesetting.py:591-592  unit.width * scale, unit.height * scale; the
\* scale s is in hundredths.
ScaledWidth(u, s, n) == u.width * s * 20 * n

ScaledHeight(u, s, n) == u.height * s * 20 * n

\* typesetting.py:555-562  the mode of the sorted font sizes: the smallest
\* of the most frequent ones.
FontSizeMode(units) ==
    LET sized == {i \in DOMAIN units : units[i].font_size # 0}
        Count(v) == Cardinality({i \in sized : units[i].font_size = v})
        sizes == {units[i].font_size : i \in sized}
    IN  CHOOSE v \in sizes :
           \A w \in sizes : Count(v) > Count(w) \/ (Count(v) = Count(w) /\ v <= w)

\* typesetting.py:564-566  half the width of a full-width character at
\* font_size * scale.
SpaceWidth(units, s) == FontSizeMode(units) * s * 10 * Len(units)

RECURSIVE SumHeights(_, _)
SumHeights(units, i) ==
    IF i > Len(units) THEN 0 ELSE units[i].height + SumHeights(units, i + 1)

\* typesetting.py:569-574
AvgHeight(units, s) == SumHeights(units, 1) * s * 20

\* typesetting.py:520-533  _get_width_before_next_break_point on
\* typesetting_units[j:], before the multiplication by scale.
RECURSIVE WidthBeforeNextBreakPoint(_, _)
WidthBeforeNextBreakPoint(units, j) ==
    IF j > Len(units) \/ can_break_line(units[j])
       THEN 0
       ELSE units[j].width + WidthBeforeNextBreakPoint(units, j + 1)

\* typesetting.py:598-625  the half space put between a CJK and a non-CJK
\* unit of the same line.
MixedSpacing(units, bx, st, i) ==
    /\ Len(st.typeset_units) > 0
    /\ LET last == st.typeset_units[Len(st.typeset_units)]
           last_unit == units[last.unit]
           unit == units[i]
       IN  /\ is_chinese_char(last_unit) # is_chinese_char(unit)
           /\ last.y # 0
           /\ st.current_y - 200 * Len(units) <= last.y2
           /\ last.y2 <= st.current_y + st.line_height + 200 * Len(units)
           /\ ~mixed_character_blacklist(last_unit)
           /\ ~mixed_character_blacklist(unit)
           /\ st.current_x > bx.x
           /\ unit.unicode # " "
           /\ last_unit.unicode # " "
           /\ last_unit.unicode \notin
                 {"U+3002", "U+FF01", "U+FF1F", "U+FF1B", "U+FF1A", "U+FF0C"}

\* typesetting.py:633-645  the unit does not go on the current line.
NeedsWrap(units, bx, s, eng, i, x) ==
    LET unit == units[i]
        n == Len(units)
        unit_width == ScaledWidth(unit, s, n)
        width_before_next_break_point ==
            IF eng THEN WidthBeforeNextBreakPoint(units, i + 1) * s * 20 * n ELSE 0
    IN  /\ ~is_hung_punctuation(unit)
        /\ \/ x + unit_width > bx.x2
           \/ eng /\ x + unit_width + width_before_next_break_point > bx.x2
           \/ /\ is_cannot_appear_in_line_end_punctuation(unit)
              /\ x + unit_width * 2 > bx.x2

\* typesetting.py:660-672  relocate the unit to (x, y), append it, update
\* the line height and the pen.
PlaceUnit(units, s, st, i, x, y, lh) ==
    LET unit_width == ScaledWidth(units[i], s, Len(units))
        unit_height == ScaledHeight(units[i], s, Len(units))
    IN  [st EXCEPT
           !.typeset_units = Append(@, [unit |-> i, x |-> x, y |-> y,
                                         x2 |-> x + unit_width,
                                         y2 |-> y + unit_height]),
           !.line_height = IF lh = 0 \/ (lh * 12 > unit_height * 10 /\ unit_height > lh)
                              THEN unit_height ELSE lh,
           !.current_x = x + unit_width,
           !.current_y = y]

\* typesetting.py:589-672  the body of the loop for unit i; ls is the line
\* spacing in tenths.
LayoutUnit(units, bx, s, ls, eng, st, i) ==
    LET unit == units[i]
        unit_height == ScaledHeight(unit, s, Len(units))
    IN  IF st.current_x = bx.x /\ is_space(unit)
           THEN st
           ELSE
             LET x == IF MixedSpacing(units, bx, st, i)
                         THEN st.current_x + SpaceWidth(units, s) \div 2
                         ELSE st.current_x
             IN  IF NeedsWrap(units, bx, s, eng, i, x)
                    THEN
                      LET y == st.current_y - (st.line_height * ls) \div 10
                      IN  IF y - unit_height < bx.y
                             THEN [st EXCEPT !.current_x = bx.x, !.current_y = y,
                                             !.line_height = 0,
                                             !.all_units_fit = FALSE]
                             ELSE IF is_space(unit)
                                     THEN [st EXCEPT !.current_x = bx.x,
                                                     !.current_y = y,
                                                     !.line_height = unit_height]
                                     ELSE PlaceUnit(units, s, st, i, bx.x, y, 0)
                    ELSE PlaceUnit(units, s, st, i, x, st.current_y, st.line_height)

RECURSIVE LayoutFrom(_, _, _, _, _, _, _)
LayoutFrom(units, bx, s, ls, eng, st, i) ==
    IF i > Len(units) \/ ~st.all_units_fit
       THEN st
       ELSE LayoutFrom(units, bx, s, ls, eng,
                       LayoutUnit(units, bx, s, ls, eng, st, i), i + 1)

\* The box in the integer lengths of the layout.
BoxInPt(box, n) ==
    [x |-> Pt(box.x, n), y |-> Pt(box.y, n),
     x2 |-> Pt(box.x2, n), y2 |-> Pt(box.y2, n)]

\* typesetting.py:576-588  the pen before the first unit: the upper left
\* corner, one average height down, four space widths in when the paragraph
\* has a first line indent.
LayoutStart(units, bx, s, indent) ==
    [current_x |-> IF indent
                      THEN bx.x + SpaceWidth(units, s) * 4
                      ELSE bx.x,
     current_y |-> bx.y2 - AvgHeight(units, s),
     line_height |-> 0,
     typeset_units |-> << >>,
     all_units_fit |-> TRUE]

\* typesetting.py:535-672  _layout_typesetting_units for a box given in
\* points: the placed units and whether all units fit.
layout_typesetting_units(units, box, s, ls, indent, eng) ==
    LET bx == BoxInPt(box, Len(units))
    IN  LayoutFrom(units, bx, s, ls, eng, LayoutStart(units, bx, s, indent), 1)

(***************************************************************************)
(* Typesetting: render_paragraph and the fit search of retypeset           *)
(***************************************************************************)
\* Paragraph boxes: lower left corner at (10, 10), these widths and heights.
BoxWidths == {1, 15, 40}

BoxHeights == {1, 30}

ParagraphBoxes ==
    {[x |-> 10, y |-> 10, x2 |-> 10 + w, y2 |-> 10 + h] :
        w \in BoxWidths, h \in BoxHeights}

\* Pages: x2 of the crop box and the boxes of the other paragraphs and of
\* the figures.
TSPages ==
    { [cropbox_x2 |-> 100, others |-> {}],
      [cropbox_x2 |-> 100, others |-> {[x |-> 30, y |-> 0, x2 |-> 60, y2 |-> 50]}],
      [cropbox_x2 |-> 100, others |-> {[x |-> 11, y |-> 0, x2 |-> 20, y2 |-> 50]}] }

UnitLists == UNION {[1..n -> UnitKinds] : n \in 0..MaxUnits}

\* A scale is a double.  It is kept as the decimal it stands for, in
\* hundredths, with a mark `lo` when the double lies just below that
\* decimal: 1.0 - 0.05 is the double 0.95, and every later subtraction of
\* the loop gives a double just below the decimal (0.8999999999999999, ...,
\* 0.6999999999999997, ..., 0.0999999999999997).
ScaleOf(n) == [n |-> n, lo |-> FALSE]

NoScale == ScaleOf(0)

ScaleMinus(sc, step) == [n |-> sc.n - step, lo |-> sc.lo \/ sc.n # 100]

\* sc >= k / 100, sc > k / 100, sc < k / 100 for a literal k / 100.
ScaleGE(sc, k) == sc.n > k \/ (sc.n = k /\ ~sc.lo)

ScaleGT(sc, k) == sc.n > k

ScaleLT(sc, k) == sc.n < k \/ (sc.n = k /\ sc.lo)

\* typesetting.py:684  min_scale = 0.1
min_scale == 10

\* typesetting.py:675-686  the locals of retypeset at entry; the line
\* spacing and its floor are in tenths (1.5 and 1.4).
InitialScale == ScaleOf(100)

InitialLineSpacing == 15

InitialMinLineSpacing == 14

\* typesetting.py:729-737  the next line spacing and scale after a layout
\* that did not fit.
Shrunk(sc, ls, mls) ==
    IF ls > mls
       THEN [scale |-> sc, line_spacing |-> ls - 1]
       ELSE [scale |-> IF ScaleGT(sc, 60) THEN ScaleMinus(sc, 5)
                                         ELSE ScaleMinus(sc, 10),
             line_spacing |-> InitialLineSpacing]

RelaxFloor_Always(sc, mls) == ScaleLT(sc, 70)

RelaxFloor_Below60(sc, mls) == ScaleLT(sc, 60) /\ mls > 11

\* typesetting.py:739  scale < 0.7 and min_line_spacing > 1.1
RelaxFloor(sc, mls) == ScaleLT(sc, 70) /\ mls > 11

\* typesetting.py:850-881  get_max_right_space, in points.
get_max_right_space(current_box, page) ==
    LET blocking == {b \in page.others :
                        /\ b # current_box
                        /\ b.x > current_box.x
                        /\ ~(b.y >= current_box.y2 \/ b.y2 <= current_box.y)}
        limits == {(page.cropbox_x2 * 9) \div 10} \cup {b.x : b \in blocking}
    IN  CHOOSE m \in limits : \A l \in limits : m <= l

\* typesetting.py:700-705, 826-848  the characters of the placed units.
Rendered(typeset_units, sc) ==
    [k \in DOMAIN typeset_units |->
        [unit |-> typeset_units[k].unit, x |-> typeset_units[k].x,
         y |-> typeset_units[k].y, scale |-> sc.n]]

\* typesetting.py:826-848  create_passthrough_composition: the units'
\* own characters, untouched.
Passthrough(units) ==
    [k \in DOMAIN units |-> [unit |-> k, x |-> -1, y |-> -1, scale |-> 0]]

NoLayout == [typeset_units |-> << >>, all_units_fit |-> FALSE, attempted |-> FALSE]

\* The layout the loop computes at its current position.
CurrentLayout ==
    layout_typesetting_units(ts_units, ts_box, scale.n, line_spacing,
                             first_line_indent, use_english_line_break)

Attempted(l) ==
    [typeset_units |-> l.typeset_units, all_units_fit |-> l.all_units_fit,
     attempted |-> TRUE]

TSIdle ==
    /\ ts_units = << >>
    /\ first_line_indent = FALSE
    /\ ts_page = [cropbox_x2 |-> 0, others |-> {}]
    /\ ts_box_in = [x |-> 0, y |-> 0, x2 |-> 0, y2 |-> 0]
    /\ paragraph_box = [x |-> 0, y |-> 0, x2 |-> 0, y2 |-> 0]
    /\ paragraph_scale = NoScale
    /\ pdf_paragraph_composition = << >>
    /\ ts_pc = "idle"
    /\ ts_box = [x |-> 0, y |-> 0, x2 |-> 0, y2 |-> 0]
    /\ scale = NoScale
    /\ line_spacing = 0
    /\ min_line_spacing = 0
    /\ expand_space_flag = FALSE
    /\ use_english_line_break = TRUE
    /\ ts_calls = 0
    /\ ts_relaxations = 0
    /\ ts_attempts = 0
    /\ ts_layout = NoLayout

\* typesetting.py:498-507  render_paragraph is entered with the units
\* create_typesetting_units made for the paragraph.
TSInit ==
    /\ ts_units \in UnitLists
    /\ first_line_indent \in BOOLEAN
    /\ ts_page \in TSPages
    /\ ts_box_in \in ParagraphBoxes
    /\ paragraph_box = ts_box_in
    /\ paragraph_scale = NoScale
    /\ pdf_paragraph_composition = Passthrough(ts_units)
    /\ ts_pc = "render"
    /\ ts_box = [x |-> 0, y |-> 0, x2 |-> 0, y2 |-> 0]
    /\ scale = NoScale
    /\ line_spacing = 0
    /\ min_line_spacing = 0
    /\ expand_space_flag = FALSE
    /\ use_english_line_break = TRUE
    /\ ts_calls = 0
    /\ ts_relaxations = 0
    /\ ts_attempts = 0
    /\ ts_layout = NoLayout

\* typesetting.py:675-686  entry of retypeset.
EnterRetypeset(eng) ==
    /\ ts_box' = paragraph_box
    /\ scale' = InitialScale
    /\ line_spacing' = InitialLineSpacing
    /\ min_line_spacing' = InitialMinLineSpacing
    /\ expand_space_flag' = FALSE
    /\ use_english_line_break' = eng
    /\ ts_calls' = ts_calls + 1
    /\ ts_relaxations' = 0
    /\ ts_attempts' = 0
    /\ ts_pc' = "while"

\* typesetting.py:507-514  all units pass through: no reflow.
TSPassthrough ==
    /\ ts_pc = "render"
    /\ \A k \in DOMAIN ts_units : can_passthrough(ts_units[k])
    /\ paragraph_scale' = ScaleOf(100)
    /\ pdf_paragraph_composition' = Passthrough(ts_units)
    /\ ts_pc' = "done"
    /\ UNCHANGED << ts_units, first_line_indent, ts_page, ts_box_in,
                    paragraph_box, ts_box, scale, line_spacing,
                    min_line_spacing, expand_space_flag,
                    use_english_line_break, ts_calls, ts_relaxations,
                    ts_attempts, ts_layout >>
    /\ UNCHANGED nonTS

\* typesetting.py:516-518  the composition is emptied and retypeset called.
TSRetypeset ==
    /\ ts_pc = "render"
    /\ \E k \in DOMAIN ts_units : ~can_passthrough(ts_units[k])
    /\ pdf_paragraph_composition' = << >>
    /\ EnterRetypeset(TRUE)
    /\ UNCHANGED << ts_units, first_line_indent, ts_page, ts_box_in,
                    paragraph_box, paragraph_scale, ts_layout >>
    /\ UNCHANGED nonTS

\* typesetting.py:688-708  an iteration whose layout fits: the paragraph
\* takes the scale and the rendered characters, retypeset returns.
TSFit ==
    /\ ts_pc = "while"
    /\ ScaleGE(scale, min_scale)
    /\ CurrentLayout.all_units_fit
    /\ ts_attempts' = ts_attempts + 1
    /\ ts_layout' = Attempted(CurrentLayout)
    /\ paragraph_scale' = scale
    /\ pdf_paragraph_composition' = Rendered(CurrentLayout.typeset_units, scale)
    /\ ts_pc' = "done"
    /\ UNCHANGED << ts_units, first_line_indent, ts_page, ts_box_in,
                    paragraph_box, ts_box, scale, line_spacing,
                    min_line_spacing, expand_space_flag,
                    use_english_line_break, ts_calls, ts_relaxations >>
    /\ UNCHANGED nonTS

\* typesetting.py:688-698, 710-725  the first iteration whose layout does
\* not fit: paragraph.box is widened to the free space on the right, if
\* there is any, and the loop continues.
TSExpand ==
    /\ ts_pc = "while"
    /\ ScaleGE(scale, min_scale)
    /\ ~CurrentLayout.all_units_fit
    /\ ~expand_space_flag
    /\ ts_attempts' = ts_attempts + 1
    /\ ts_layout' = Attempted(CurrentLayout)
    /\ LET max_x == get_max_right_space(ts_box, ts_page)
       IN  paragraph_box' = IF max_x > ts_box.x2
                               THEN [ts_box EXCEPT !.x2 = max_x]
                               ELSE paragraph_box
    /\ expand_space_flag' = TRUE
    /\ UNCHANGED << ts_units, first_line_indent, ts_page, ts_box_in,
                    paragraph_scale, pdf_paragraph_composition, ts_pc, ts_box,
                    scale, line_spacing, min_line_spacing,
                    use_english_line_break, ts_calls, ts_relaxations >>
    /\ UNCHANGED nonTS

\* typesetting.py:688-698, 727-742  a later iteration whose layout does not
\* fit: less line spacing, or a smaller scale at line spacing 1.5; below
\* scale 0.7 the floor of the line spacing drops to 1.1 and the search
\* starts again at scale 1.0.
TSShrink ==
    /\ ts_pc = "while"
    /\ ScaleGE(scale, min_scale)
    /\ ~CurrentLayout.all_units_fit
    /\ expand_space_flag
    /\ ts_attempts' = ts_attempts + 1
    /\ ts_layout' = Attempted(CurrentLayout)
    /\ LET next == Shrunk(scale, line_spacing, min_line_spacing)
       IN  IF RelaxFloor(next.scale, min_line_spacing)
              THEN /\ min_line_spacing' = 11
                   /\ scale' = InitialScale
                   /\ line_spacing' = InitialLineSpacing
                   /\ ts_relaxations' = ts_relaxations + 1
              ELSE /\ scale' = next.scale
                   /\ line_spacing' = next.line_spacing
                   /\ UNCHANGED << min_line_spacing, ts_relaxations >>
    /\ UNCHANGED << ts_units, first_line_indent, ts_page, ts_box_in,
                    paragraph_box, paragraph_scale, pdf_paragraph_composition,
                    ts_pc, ts_box, expand_space_flag, use_english_line_break,
                    ts_calls >>
    /\ UNCHANGED nonTS

\* typesetting.py:688, 743-746  the loop ends without a fit: retypeset
\* calls itself once more, without the rule that keeps Latin words whole.
TSRecurse ==
    /\ ts_pc = "while"
    /\ ~ScaleGE(scale, min_scale)
    /\ use_english_line_break
    /\ EnterRetypeset(FALSE)
    /\ UNCHANGED << ts_units, first_line_indent, ts_page, ts_box_in,
                    paragraph_box, paragraph_scale, pdf_paragraph_composition,
                    ts_layout >>
    /\ UNCHANGED nonTS

\* typesetting.py:688, 743  the loop of the second call ends without a fit:
\* both calls return.
TSGiveUp ==
    /\ ts_pc = "while"
    /\ ~ScaleGE(scale, min_scale)
    /\ ~use_english_line_break
    /\ ts_pc' = "done"
    /\ UNCHANGED << ts_units, first_line_indent, ts_page, ts_box_in,
                    paragraph_box, paragraph_scale, pdf_paragraph_composition,
                    ts_box, scale, line_spacing, min_line_spacing,
                    expand_space_flag, use_english_line_break, ts_calls,
                    ts_relaxations, ts_attempts, ts_layout >>
    /\ UNCHANGED nonTS

(***************************************************************************)
(* ILTranslator: placeholders of get_translate_input and their parsing    *)
(***************************************************************************)
\* Longest composition list of a paragraph and longest run of characters
\* in one composition.
MaxComps == 3

MaxRunLen == 2

\* A PdfCharacter of the paragraph, all on one row: its char_unicode and
\* `gap`, the x of the next character's box minus the x2 of its own box
\* (layout_helper.py:167).
PdfChars ==
    { [t |-> "char", char_unicode |-> "a", gap |-> 0],
      [t |-> "char", char_unicode |-> "a", gap |-> 2],
      [t |-> "char", char_unicode |-> "a", gap |-> 3],
      [t |-> "char", char_unicode |-> " ", gap |-> 0] }

\* A str item of a chars list (a placeholder, a character of a unicode
\* string).
Str(s) == [t |-> "str", char_unicode |-> s, gap |-> 0]

CharRuns == UNION {[1..n -> PdfChars] : n \in 1..MaxRunLen}

\* Compositions before translation: a PdfLine in the paragraph's style or
\* a PdfSameStyleCharacters run in another style.
Line(chars) ==
    [kind |-> "pdf_line", style |-> "base", chars |-> chars, unicode |-> << >>]

SameStyleCharacters(chars, style) ==
    [kind |-> "pdf_same_style_characters", style |-> style, chars |-> chars,
     unicode |-> << >>]

SameStyleUnicodeCharacters(unicode, style) ==
    [kind |-> "pdf_same_style_unicode_characters", style |-> style,
     chars |-> << >>, unicode |-> unicode]

Compositions ==
    {Line(c) : c \in CharRuns} \cup {SameStyleCharacters(c, "bold") : c \in CharRuns}

RTParagraphs == UNION {[1..n -> Compositions] : n \in 1..MaxComps}

\* layout_helper.py:159-179  the reference distance: 1 without a distance
\* above 1, else the only one, else the second smallest.
median_distance(chars) ==
    LET distinct_distances ==
            {chars[i].gap : i \in {j \in 1..(Len(chars) - 1) :
                                      /\ chars[j].t = "char"
                                      /\ chars[j + 1].t = "char"
                                      /\ chars[j].gap > 1}}
        least == CHOOSE d \in distinct_distances :
                     \A e \in distinct_distances : d <= e
    IN  IF distinct_distances = {} THEN 1
        ELSE IF Cardinality(distinct_distances) = 1 THEN least
        ELSE CHOOSE d \in distinct_distances \ {least} :
                 \A e \in distinct_distances \ {least} : d <= e

\* layout_helper.py:181-203  the text of a chars list, as a sequence of
\* one-character strings and placeholders: a space is added after a
\* PdfCharacter that is not a space when the next item is a PdfCharacter at
\* least median_distance away.
RECURSIVE UnicodeFrom(_, _, _)
UnicodeFrom(chars, i, median) ==
    IF i > Len(chars) THEN << >>
    ELSE LET c == chars[i]
             space == /\ c.t = "char"
                      /\ c.char_unicode # " "
                      /\ i < Len(chars)
                      /\ chars[i + 1].t = "char"
                      /\ c.gap >= median
         IN  << c.char_unicode >> \o (IF space THEN << " " >> ELSE << >>)
                 \o UnicodeFrom(chars, i + 1, median)

get_char_unicode_string(chars) == UnicodeFrom(chars, 1, median_distance(chars))

RECURSIVE Flatten(_)
Flatten(seqs) == IF seqs = << >> THEN << >> ELSE Head(seqs) \o Flatten(Tail(seqs))

\* layout_helper.py:125-145
get_paragraph_unicode(comps) ==
    get_char_unicode_string(
        Flatten([k \in DOMAIN comps |->
                    IF comps[k].kind = "pdf_same_style_unicode_characters"
                       THEN [j \in DOMAIN comps[k].unicode |-> Str(comps[k].unicode[j])]
                       ELSE comps[k].chars]))

\* translator.py:141-145  BaseTranslator's placeholders.
get_rich_text_left_placeholder(id) == "<b" \o ToString(id) \o ">"

get_rich_text_right_placeholder(id) == "</b" \o ToString(id) \o ">"

\* il_translator.py:203-228  the characters of the model never spell a
\* placeholder, so the first id is free.
create_rich_text_placeholder(composition, id) ==
    [id |-> id, composition |-> composition,
     left_placeholder |-> get_rich_text_left_placeholder(id),
     right_placeholder |-> get_rich_text_right_placeholder(id)]

\* il_translator.py:301-323  the run's style needs no placeholder.
SameAsBaseStyle(composition) == composition.style = "base"

NoInput == [none |-> TRUE, unicode |-> << >>, placeholders |-> << >>]

TranslateInput(unicode, placeholders) ==
    [none |-> FALSE, unicode |-> unicode, placeholders |-> placeholders]

\* il_translator.py:267-344  the loop over the compositions: st holds
\* placeholder_id, placeholders and chars.
RECURSIVE InputLoop(_, _, _, _)
InputLoop(comps, k, disable, st) ==
    IF k > Len(comps) THEN st
    ELSE LET c == comps[k]
         IN  IF c.kind = "pdf_line"
                   \/ (c.kind = "pdf_same_style_characters"
                          /\ (disable \/ SameAsBaseStyle(c)))
                THEN InputLoop(comps, k + 1, disable,
                               [st EXCEPT !.chars = @ \o c.chars])
                ELSE LET ph == create_rich_text_placeholder(c, st.placeholder_id)
                     IN  InputLoop(comps, k + 1, disable,
                            [placeholder_id |-> ph.id + 2,
                             placeholders |-> Append(st.placeholders, ph),
                             chars |-> st.chars \o << Str(ph.left_placeholder) >>
                                          \o c.chars
                                          \o << Str(ph.right_placeholder) >>])

\* il_translator.py:230-355
get_translate_input(comps, disable) ==
    IF comps = << >> THEN NoInput
    ELSE IF Len(comps) = 1
        THEN TranslateInput(get_paragraph_unicode(comps), << >>)
    ELSE LET start == [placeholder_id |-> 1, placeholders |-> << >>, chars |-> << >>]
             st == InputLoop(comps, 1, disable, start)
         IN  IF Len(st.placeholders) > 50 /\ ~disable
                THEN TranslateInput(
                        get_char_unicode_string(InputLoop(comps, 1, TRUE, start).chars),
                        << >>)
                ELSE TranslateInput(get_char_unicode_string(st.chars), st.placeholders)

\* il_translator.py:433-434  remove_placeholder: every left and right
\* placeholder is deleted from the text.
remove_placeholder(text, placeholders) ==
    SelectSeq(text, LAMBDA s :
        \A k \in DOMAIN placeholders :
            /\ s # placeholders[k].left_placeholder
            /\ s # placeholders[k].right_placeholder)

\* text.replace(" ", "")
WithoutSpaces(text) == SelectSeq(text, LAMBDA s : s # " ")

\* il_translator.py:424 and 438  where the pattern left.*?right of some
\* placeholder matches at position i of the output: the index of the first
\* right placeholder after it, 0 when there is no match at i.
MatchEnd(output, placeholders, i) ==
    LET ends == {j \in (i + 1)..Len(output) :
                    \E k \in DOMAIN placeholders :
                        /\ output[i] = placeholders[k].left_placeholder
                        /\ output[j] = placeholders[k].right_placeholder}
    IN  IF ends = {} THEN 0 ELSE CHOOSE j \in ends : \A e \in ends : j <= e

\* il_translator.py:436-511  re.finditer over the output, from position
\* pos on, last_end being the end of the previous match.
RECURSIVE ParseFrom(_, _, _, _)
ParseFrom(output, placeholders, pos, last_end) ==
    LET starts == {i \in pos..Len(output) : MatchEnd(output, placeholders, i) # 0}
    IN  IF starts = {}
           THEN \* il_translator.py:513-523  the text after the last match
                IF last_end < Len(output)
                   THEN << SameStyleUnicodeCharacters(
                              remove_placeholder(
                                  SubSeq(output, last_end + 1, Len(output)),
                                  placeholders), "base") >>
                   ELSE << >>
           ELSE LET i == CHOOSE s \in starts : \A e \in starts : s <= e
                    j == MatchEnd(output, placeholders, i)
                    before == SubSeq(output, last_end + 1, i - 1)
                    placeholder ==
                        placeholders[CHOOSE k \in DOMAIN placeholders :
                                        output[i] = placeholders[k].left_placeholder]
                    text == SubSeq(output, i + 1, j - 1)
                    original ==
                        [n \in DOMAIN placeholder.composition.chars |->
                            placeholder.composition.chars[n].char_unicode]
                IN  (IF before # << >>
                        THEN << SameStyleUnicodeCharacters(
                                   remove_placeholder(before, placeholders), "base") >>
                        ELSE << >>)
                    \o (IF WithoutSpaces(text) = WithoutSpaces(original)
                           THEN << placeholder.composition >>
                           ELSE << SameStyleUnicodeCharacters(
                                      remove_placeholder(text, placeholders),
                                      placeholder.composition.style) >>)
                    \o ParseFrom(output, placeholders, j + 1, j)

\* il_translator.py:392-525
parse_translate_output(input_text, output) ==
    IF input_text.placeholders = << >>
       THEN << SameStyleUnicodeCharacters(output, "base") >>
       ELSE ParseFrom(output, input_text.placeholders, 1, 0)

\* What the engine can answer: the text sent, or the text cut short by
\* its last item.
Answers(text) == {text, SubSeq(text, 1, Len(text) - 1)}

RTIdle ==
    /\ rt_paragraph = << >>
    /\ disable_rich_text_translate = FALSE
    /\ rt_pc = "idle"
    /\ translate_input = NoInput
    /\ translated_text = << >>
    /\ rt_result = << >>

\* il_translator.py:230-235  a paragraph and the flag, before
\* get_translate_input is called.
RTInit ==
    /\ rt_paragraph \in RTParagraphs
    /\ disable_rich_text_translate \in BOOLEAN
    /\ rt_pc = "input"
    /\ translate_input = NoInput
    /\ translated_text = << >>
    /\ rt_result = << >>

\* il_translator.py:230-355  get_translate_input is applied.
RTGetInput ==
    /\ rt_pc = "input"
    /\ translate_input' = get_translate_input(rt_paragraph, disable_rich_text_translate)
    /\ rt_pc' = "engine"
    /\ UNCHANGED << rt_paragraph, disable_rich_text_translate, translated_text,
                    rt_result >>
    /\ UNCHANGED nonRT

\* il_translator.py:558-559  translate_engine.translate(text)
RTTranslate ==
    /\ rt_pc = "engine"
    /\ translated_text' \in Answers(translate_input.unicode)
    /\ rt_pc' = "parse"
    /\ UNCHANGED << rt_paragraph, disable_rich_text_translate, translate_input,
                    rt_result >>
    /\ UNCHANGED nonRT

\* il_translator.py:392-525  parse_translate_output applied to the input
\* and the answer (translate_paragraph calls it at 566-570 when the answer
\* differs from the text sent).
RTParse ==
    /\ rt_pc = "parse"
    /\ rt_result' = parse_translate_output(translate_input, translated_text)
    /\ rt_pc' = "parsed"
    /\ UNCHANGED << rt_paragraph, disable_rich_text_translate, translate_input,
                    translated_text >>
    /\ UNCHANGED nonRT

(***************************************************************************)
(* ParagraphFinder (document_il/midend/paragraph_finder.py) and            *)
(* Layout.is_newline (document_il/utils/layout_helper.py).                 *)
(*                                                                         *)
(* A page is a list of characters and a list of layout regions.  A         *)
(* character is a record [box, xobj_id, char_unicode]; lines and           *)
(* paragraphs hold the 1-based numbers of the characters in                *)
(* page.pdf_character, so that a character can be followed through the     *)
(* grouping.  The pages are built from runs of adjacent 5 x 10 characters  *)
(* on five baselines: one in the title box, two in the plain-text box      *)
(* (upper and lower), one in the right half of the plain-text box at the   *)
(* height of the upper one, and one in a figure box.  The dummy space      *)
(* characters of add_space_dummy_chars are not represented: inside a line  *)
(* they lie between two characters and at a line's end                     *)
(* process_paragraph_spacing strips them, so they change neither the       *)
(* grouping nor a line's box; the pages hold no blank character and no     *)
(* run of dots, and page.pdf_paragraph is empty on entry.                  *)
(***************************************************************************)
MaxPageRuns == 3

RunLens == {1, 5}

CharWidth == 5

CharHeight == 10

Box(x, y, x2, y2) == [x |-> x, y |-> y, x2 |-> x2, y2 |-> y2]

\* page.page_layout
page_layout ==
    << [id |-> 1, class_name |-> "title",      box |-> Box(0, 95, 100, 115)],
       [id |-> 2, class_name |-> "plain text", box |-> Box(0, 20, 100, 55)],
       [id |-> 3, class_name |-> "figure",     box |-> Box(0, 60, 100, 85)] >>

\* the baselines characters are placed on: y and the x of the first one
Baselines ==
    [ title |-> [y |-> 100, x |-> 0],
      upper |-> [y |-> 40,  x |-> 0],
      lower |-> [y |-> 28,  x |-> 0],
      right |-> [y |-> 40,  x |-> 60],
      figure |-> [y |-> 70, x |-> 0] ]

BaselineNames == {"title", "upper", "lower", "right", "figure"}

HEIGHT_NOT_USFUL_CHAR_IN_CHAR == {"(cid:88)", "(cid:89)", "(cid:90)"}

\* a run: n adjacent characters of one XObject on one baseline; the runs of
\* five are on the two left baselines of the plain-text box, and so are the
\* glyphs whose height is not useful
PageRuns ==
    { r \in [row : BaselineNames, n : RunLens, xobj_id : {0, 1},
             char_unicode : {"a", "(cid:88)"}] :
        /\ r.n = 1 \/ (r.row \in {"upper", "lower"} /\ r.char_unicode = "a")
        /\ r.char_unicode = "a" \/ r.row \in {"upper", "lower"} }

RECURSIVE CountOn(_, _, _)
\* the number of characters the first k runs put on baseline row
CountOn(runs, k, row) ==
    IF k = 0 THEN 0
    ELSE CountOn(runs, k - 1, row)
            + (IF runs[k].row = row THEN runs[k].n ELSE 0)

RunChars(runs, k) ==
    LET b == Baselines[runs[k].row]
        x0 == b.x + CharWidth * CountOn(runs, k - 1, runs[k].row)
    IN [j \in 1..runs[k].n |->
            [box |-> Box(x0 + CharWidth * (j - 1), b.y,
                         x0 + CharWidth * j, b.y + CharHeight),
             xobj_id |-> runs[k].xobj_id,
             char_unicode |-> runs[k].char_unicode]]

RECURSIVE PageChars(_, _)
PageChars(runs, k) ==
    IF k = 0 THEN << >> ELSE PageChars(runs, k - 1) \o RunChars(runs, k)

PFPages ==
    { PageChars(runs, Len(runs)) :
        runs \in UNION { [1..n -> PageRuns] : n \in 1..MaxPageRuns } }

formular_height_ignore_char(char) ==
    char.char_unicode \in HEIGHT_NOT_USFUL_CHAR_IN_CHAR

PFMax(a, b) == IF a >= b THEN a ELSE b

is_newline_XOnly(prev_char, curr_char) ==
    LET char_width == PFMax(curr_char.box.x2 - curr_char.box.x,
                            prev_char.box.x2 - prev_char.box.x)
        should_new_line ==
            curr_char.box.x2 < prev_char.box.x - char_width * 10
    IN IF should_new_line
          /\ (\/ formular_height_ignore_char(curr_char)
              \/ formular_height_ignore_char(prev_char))
       THEN FALSE
       ELSE should_new_line

is_newline(prev_char, curr_char) ==
    LET char_width == PFMax(curr_char.box.x2 - curr_char.box.x,
                            prev_char.box.x2 - prev_char.box.x)
        should_new_line ==
            \/ curr_char.box.y2 < prev_char.box.y
            \/ curr_char.box.x2 < prev_char.box.x - char_width * 10
    IN IF should_new_line
          /\ (\/ formular_height_ignore_char(curr_char)
              \/ formular_height_ignore_char(prev_char))
       THEN FALSE
       ELSE should_new_line

layout_priority ==
    << "formula_caption", "isolate_formula", "table_footnote",
       "table_caption", "figure_caption", "table", "figure", "abandon",
       "plain text", "tiny text", "title" >>

NoLayout_PF == [id |-> 0, name |-> "None"]

\* the anchor point of a mode, in half points
Anchor(char, xy_mode) ==
    CASE xy_mode = "topleft" ->
            [x |-> 2 * char.box.x, y |-> 2 * char.box.y2]
      [] xy_mode = "bottomright" ->
            [x |-> 2 * char.box.x2, y |-> 2 * char.box.y]
      [] OTHER ->
            [x |-> char.box.x + char.box.x2, y |-> char.box.y + char.box.y2]

_get_layout(char, xy_mode) ==
    LET a == Anchor(char, xy_mode)
        Hits == { l \in DOMAIN page_layout :
                    /\ 2 * page_layout[l].box.x <= a.x
                    /\ a.x <= 2 * page_layout[l].box.x2
                    /\ 2 * page_layout[l].box.y <= a.y
                    /\ a.y <= 2 * page_layout[l].box.y2 }
        \* matching_layouts[name]: the last region of the class that is hit
        Match(name) == { l \in Hits : page_layout[l].class_name = name }
        Found == { k \in DOMAIN layout_priority :
                      Match(layout_priority[k]) # {} }
    IN IF Found = {} THEN NoLayout_PF
       ELSE LET k == CHOOSE k \in Found : \A m \in Found : k <= m
                ls == Match(layout_priority[k])
                l == CHOOSE l \in ls : \A m \in ls : m <= l
            IN [id |-> page_layout[l].id, name |-> page_layout[l].class_name]

get_layout(char) ==
    LET tl == _get_layout(char, "topleft")
        br == _get_layout(char, "bottomright")
        md == _get_layout(char, "middle")
    IN CASE tl.name = "isolate_formula" -> tl
         [] br.name = "isolate_formula" -> br
         [] md.name = "isolate_formula" -> md
         [] md # NoLayout_PF -> md
         [] tl # NoLayout_PF -> tl
         [] OTHER -> br

is_text_layout(layout) ==
    layout.name \in {"plain text", "tiny text", "title", "abandon",
                     "figure_caption", "table_caption"}

is_isolated_formula(char) ==
    char.char_unicode \in {"(cid:122)", "(cid:123)", "(cid:124)", "(cid:125)"}

\* a line closed into an existing paragraph is lost
CloseLine_DropLine(s) ==
    IF s.cp = 0
    THEN [ps |-> Append(s.ps, << s.line >>), cp |-> Len(s.ps) + 1,
          line |-> << >>]
    ELSE [ps |-> s.ps, cp |-> s.cp, line |-> << >>]

\* create_line and the append of the line to current_paragraph, or the
\* creation of a paragraph from it; s = [ps, cp, line]
CloseLine(s) ==
    IF s.cp = 0
    THEN [ps |-> Append(s.ps, << s.line >>), cp |-> Len(s.ps) + 1,
          line |-> << >>]
    ELSE [ps |-> [s.ps EXCEPT ![s.cp] = Append(@, s.line)], cp |-> s.cp,
          line |-> << >>]

\* `current_line_chars[-1].xobj_id != char.xobj_id`, asked of the pending line
OtherXObject(page, line, char) ==
    line # << >> /\ page[line[Len(line)]].xobj_id # char.xobj_id

LineWidth(page, line) ==
    LET xs == { page[line[k]].box.x : k \in DOMAIN line }
        x2s == { page[line[k]].box.x2 : k \in DOMAIN line }
    IN (CHOOSE m \in x2s : \A v \in x2s : v <= m)
        - (CHOOSE m \in xs : \A v \in xs : m <= v)

RECURSIVE AllLines(_)
AllLines(ps) ==
    IF ps = << >> THEN << >> ELSE Head(ps) \o AllLines(Tail(ps))

\* the k-th smallest of the widths in ws (a sequence), 1-based
KthSmallest(ws, k) ==
    CHOOSE w \in { ws[i] : i \in DOMAIN ws } :
        /\ Cardinality({ i \in DOMAIN ws : ws[i] < w }) < k
        /\ Cardinality({ i \in DOMAIN ws : ws[i] <= w }) >= k

\* calculate_median_line_width, doubled to stay in the integers
calculate_median_line_width2(page, ps) ==
    LET lines == AllLines(ps)
        ws == [i \in DOMAIN lines |-> LineWidth(page, lines[i])]
        n == Len(ws)
        mid == n \div 2
    IN IF n = 0 THEN 0
       ELSE IF n % 2 = 0
            THEN KthSmallest(ws, mid) + KthSmallest(ws, mid + 1)
            ELSE 2 * KthSmallest(ws, mid + 1)

\* short_line_split_factor = 0.8: prev_width < median_width * 0.8
IsShort(prev_width, median2) == 10 * prev_width < 4 * median2

\* the first j in 1..Len(p)-1 whose line p[j] is short, 0 if none
SplitAt(page, p, median2, split) ==
    LET js == { j \in 1..(Len(p) - 1) :
                  split /\ IsShort(LineWidth(page, p[j]), median2) }
    IN IF js = {} THEN 0 ELSE CHOOSE j \in js : \A k \in js : j <= k

RECURSIVE process_independent_paragraphs(_, _, _, _, _)
\* the while loop over i (1-based); the paragraph inserted at i + 1 is
\* visited in turn
process_independent_paragraphs(page, ps, i, median2, split) ==
    IF i > Len(ps) THEN ps
    ELSE LET j == SplitAt(page, ps[i], median2, split)
         IN IF j = 0
            THEN process_independent_paragraphs(page, ps, i + 1, median2,
                                                split)
            ELSE process_independent_paragraphs(
                    page,
                    SubSeq(ps, 1, i - 1)
                        \o << SubSeq(ps[i], 1, j),
                              SubSeq(ps[i], j + 1, Len(ps[i])) >>
                        \o SubSeq(ps, i + 1, Len(ps)),
                    i + 1, median2, split)

PFIdle ==
    /\ pf_page = << >>
    /\ split_short_lines = FALSE
    /\ pf_pc = "idle"
    /\ pf_i = 0
    /\ pf_paragraphs = << >>
    /\ current_paragraph = 0
    /\ current_layout = 0
    /\ current_line_chars = << >>
    /\ skip_chars = << >>

PFInit ==
    /\ pf_page \in PFPages
    /\ split_short_lines \in BOOLEAN
    /\ pf_pc = "loop"
    /\ pf_i = 1
    /\ pf_paragraphs = << >>
    /\ current_paragraph = 0
    /\ current_layout = 0
    /\ current_line_chars = << >>
    /\ skip_chars = << >>

\* one iteration of `for char in page.pdf_character` for a character that
\* is not in a text layout
PFSkipChar ==
    /\ pf_pc = "loop"
    /\ pf_i <= Len(pf_page)
    /\ LET char == pf_page[pf_i]
       IN \/ ~is_text_layout(get_layout(char))
          \/ is_isolated_formula(char)
    /\ skip_chars' = Append(skip_chars, pf_i)
    /\ pf_i' = pf_i + 1
    /\ UNCHANGED << pf_page, split_short_lines, pf_pc, pf_paragraphs,
                    current_paragraph, current_layout, current_line_chars >>
    /\ UNCHANGED nonPF

\* one iteration of the loop for a character of a text layout
PFTextChar ==
    /\ pf_pc = "loop"
    /\ pf_i <= Len(pf_page)
    /\ LET char == pf_page[pf_i]
           char_layout == get_layout(char)
           s0 == [ps |-> pf_paragraphs, cp |-> current_paragraph,
                  line |-> current_line_chars]
           new_line ==
               /\ current_line_chars # << >>
               /\ is_newline(
                    pf_page[current_line_chars[Len(current_line_chars)]],
                    char)
           s1 == IF new_line THEN CloseLine(s0) ELSE s0
           new_paragraph ==
               \/ current_layout = 0
               \/ char_layout.id # current_layout
               \/ OtherXObject(pf_page, s1.line, char)
           s2 == IF new_paragraph
                 THEN [(IF s1.line # << >> THEN CloseLine(s1) ELSE s1)
                            EXCEPT !.cp = 0]
                 ELSE s1
       IN /\ is_text_layout(char_layout)
          /\ ~is_isolated_formula(char)
          /\ pf_paragraphs' = s2.ps
          /\ current_paragraph' = s2.cp
          /\ current_layout' =
                IF new_paragraph THEN char_layout.id ELSE current_layout
          /\ current_line_chars' = Append(s2.line, pf_i)
    /\ pf_i' = pf_i + 1
    /\ UNCHANGED << pf_page, split_short_lines, pf_pc, skip_chars >>
    /\ UNCHANGED nonPF

\* the end of create_paragraphs: the pending line is closed
PFLastLine ==
    /\ pf_pc = "loop"
    /\ pf_i > Len(pf_page)
    /\ LET s0 == [ps |-> pf_paragraphs, cp |-> current_paragraph,
                  line |-> current_line_chars]
           s1 == IF current_line_chars # << >> THEN CloseLine(s0) ELSE s0
       IN /\ pf_paragraphs' = s1.ps
          /\ current_paragraph' = s1.cp
          /\ current_line_chars' = current_line_chars
    /\ pf_pc' = "created"
    /\ UNCHANGED << pf_page, split_short_lines, pf_i, current_layout,
                    skip_chars >>
    /\ UNCHANGED nonPF

\* steps 2 to 4 of process_page
PFIndependent ==
    /\ pf_pc = "created"
    /\ pf_paragraphs' =
          process_independent_paragraphs(
              pf_page, pf_paragraphs, 1,
              calculate_median_line_width2(pf_page, pf_paragraphs),
              split_short_lines)
    /\ pf_pc' = "done"
    /\ UNCHANGED << pf_page, split_short_lines, pf_i, current_paragraph,
                    current_layout, current_line_chars, skip_chars >>
    /\ UNCHANGED nonPF

(***************************************************************************)
(* Typesetting: _layout_typesetting_units, one loop iteration at a time    *)
(***************************************************************************)
\* Longest list of units laid out.
MaxLayoutUnits == 3

\* typesetting.py:555-562  statistics.mode needs a font size: the lists
\* hold a character or a translated character (render_paragraph passes a
\* paragraph of formulas only through without a layout).
LayoutUnitLists ==
    { us \in UNION {[1..n -> UnitKinds] : n \in 1..MaxLayoutUnits} :
         \E i \in DOMAIN us : us[i].font_size # 0 }

\* Boxes with room for one or two units across and for one or several
\* lines.
LayoutBoxes ==
    {[x |-> 10, y |-> 10, x2 |-> 10 + w, y2 |-> 10 + h] :
        w \in {15, 40}, h \in {30, 60}}

LayoutScales == {100, 50}

LYIdle ==
    /\ ly_units = << >>
    /\ ly_box = [x |-> 0, y |-> 0, x2 |-> 0, y2 |-> 0]
    /\ ly_scale = 0
    /\ ly_line_spacing = 0
    /\ ly_indent = FALSE
    /\ ly_eng = FALSE
    /\ ly_pc = "idle"
    /\ ly_i = 0
    /\ ly_st = [current_x |-> 0, current_y |-> 0, line_height |-> 0,
                typeset_units |-> << >>, all_units_fit |-> TRUE]

\* typesetting.py:535-588  the call and the locals before the loop.
LYInit ==
    /\ ly_units \in LayoutUnitLists
    /\ ly_box \in LayoutBoxes
    /\ ly_scale \in LayoutScales
    /\ ly_line_spacing = InitialLineSpacing
    /\ ly_indent \in BOOLEAN
    /\ ly_eng \in BOOLEAN
    /\ ly_pc = "loop"
    /\ ly_i = 1
    /\ ly_st = LayoutStart(ly_units, BoxInPt(ly_box, Len(ly_units)),
                           ly_scale, ly_indent)

\* typesetting.py:589-672  one iteration of `for i, unit in
\* enumerate(typesetting_units)`.
LYUnit ==
    /\ ly_pc = "loop"
    /\ ly_i <= Len(ly_units)
    /\ ly_st.all_units_fit
    /\ ly_st' = LayoutUnit(ly_units, BoxInPt(ly_box, Len(ly_units)), ly_scale,
                           ly_line_spacing, ly_eng, ly_st, ly_i)
    /\ ly_i' = ly_i + 1
    /\ UNCHANGED << ly_units, ly_box, ly_scale, ly_line_spacing, ly_indent,
                    ly_eng, ly_pc >>
    /\ UNCHANGED nonLY

\* typesetting.py:651-653, 674  the break at the bottom of the box, or the
\* end of the loop: return typeset_units, all_units_fit.
LYReturn ==
    /\ ly_pc = "loop"
    /\ ly_i > Len(ly_units) \/ ~ly_st.all_units_fit
    /\ ly_pc' = "returned"
    /\ UNCHANGED << ly_units, ly_box, ly_scale, ly_line_spacing, ly_indent,
                    ly_eng, ly_i, ly_st >>
    /\ UNCHANGED nonLY

(***************************************************************************)
(* ILTranslator.get_translate_input: the search for free placeholder ids   *)
(*                                                                         *)
(* Strings are sequences of one-character strings, so that `token in       *)
(* paragraph.unicode` is a substring search and a token can be spelled     *)
(* across the characters of neighbouring compositions.                     *)
(***************************************************************************)
\* Longest composition list of a paragraph.
MaxPHComps == 3

\* Texts of a composition: a letter, whole placeholder tokens and the two
\* halves of one.
PHTexts ==
    { << "a" >>,
      << "<", "b", "1", ">" >>,
      << "<", "/", "b", "2", ">" >>,
      << "<", "b" >>,
      << "3", ">" >>,
      << "{", "{", "v", "2", "}", "}" >> }

PHFormulaTexts == { << "a" >>, << "<", "b", "1", ">" >> }

PHCompositions ==
    {[kind |-> k, text |-> t] :
        k \in {"pdf_line", "pdf_same_style_characters"}, t \in PHTexts}
    \cup {[kind |-> "pdf_formula", text |-> t] : t \in PHFormulaTexts}

PHParagraphs == UNION {[1..n -> PHCompositions] : n \in 1..MaxPHComps}

\* f"{placeholder_id}": the decimal digits of a non-negative integer.
DigitChar == << "0", "1", "2", "3", "4", "5", "6", "7", "8", "9" >>

RECURSIVE Decimal(_)
Decimal(n) ==
    IF n < 10 THEN << DigitChar[n + 1] >>
    ELSE Decimal(n \div 10) \o << DigitChar[(n % 10) + 1] >>

\* The engines: BaseTranslator's placeholders (GoogleTranslator,
\* BingTranslator) and those of OpenAITranslator and TranslateTranslator.
Engines == {"base", "openai"}

\* translator.py:147-148  get_formular_placeholder is the left rich text
\* placeholder; translator.py:266-267, 315-316  "{{v" + str(id) + "}}"
FormulaToken(engine, id) ==
    IF engine = "base"
       THEN << "<", "b" >> \o Decimal(id) \o << ">" >>
       ELSE << "{", "{", "v" >> \o Decimal(id) \o << "}", "}" >>

\* translator.py:141-142  f"<b{placeholder_id}>"; translator.py:270-271,
\* 319-320  the formula placeholder of the id
LeftToken(engine, id) == FormulaToken(engine, id)

\* translator.py:144-145  f"</b{placeholder_id}>"; translator.py:273-274,
\* 322-323  the formula placeholder of the next id
RightToken(engine, id) ==
    IF engine = "base"
       THEN << "<", "/", "b" >> \o Decimal(id) \o << ">" >>
       ELSE FormulaToken(engine, id + 1)

\* Python's `t in s` on strings.
IsSubstring(t, s) ==
    \E i \in 0..(Len(s) - Len(t)) : SubSeq(s, i + 1, i + Len(t)) = t

\* layout_helper.py:125-145  get_paragraph_unicode: the characters of all
\* compositions in order, the characters of formulas included (adjacent
\* characters, no space is added between them).
PHUnicode(comps) == Flatten([k \in DOMAIN comps |-> comps[k].text])

\* il_translator.py:189-199
RECURSIVE create_formula_placeholder(_, _, _, _)
create_formula_placeholder(engine, formula, formula_id, unicode) ==
    IF IsSubstring(FormulaToken(engine, formula_id), unicode)
       THEN create_formula_placeholder(engine, formula, formula_id + 1, unicode)
       ELSE [kind |-> "formula", id |-> formula_id, composition |-> formula,
             tokens |-> << FormulaToken(engine, formula_id) >>]

RichTextTaken_LeftOnly(engine, id, unicode) ==
    IsSubstring(LeftToken(engine, id), unicode)

\* il_translator.py:213-216  the test of the rich text search
RichTextTaken(engine, id, unicode) ==
    \/ IsSubstring(LeftToken(engine, id), unicode)
    \/ IsSubstring(RightToken(engine, id), unicode)

\* il_translator.py:201-228
RECURSIVE RichTextPlaceholder(_, _, _, _)
RichTextPlaceholder(engine, composition, composition_id, unicode) ==
    IF RichTextTaken(engine, composition_id, unicode)
       THEN RichTextPlaceholder(engine, composition, composition_id + 1, unicode)
       ELSE [kind |-> "rich_text", id |-> composition_id,
             composition |-> composition,
             tokens |-> << LeftToken(engine, composition_id),
                           RightToken(engine, composition_id) >>]

NextId_PlusOne(placeholder) == placeholder.id + 1

\* il_translator.py:285-286, 329-330  a formula takes one id, a run in
\* another style two.
NextId(placeholder) ==
    IF placeholder.kind = "formula" THEN placeholder.id + 1
                                    ELSE placeholder.id + 2

\* il_translator.py:301-323  whether a run needs no placeholder: the runs
\* of the model are in another style than the paragraph.
PHSameAsBase(composition) == FALSE

PHIdle ==
    /\ ph_paragraph = << >>
    /\ ph_unicode = << >>
    /\ ph_disable = FALSE
    /\ ph_engine = "base"
    /\ ph_pc = "idle"
    /\ ph_k = 0
    /\ ph_placeholder_id = 0
    /\ ph_placeholders = << >>
    /\ ph_chars = << >>

\* il_translator.py:230-271  a paragraph of two or more compositions at
\* the start of the loop (a single composition returns before it, without
\* ph_placeholders).
PHInit ==
    /\ ph_paragraph \in PHParagraphs
    /\ ph_unicode = PHUnicode(ph_paragraph)
    /\ ph_disable \in BOOLEAN
    /\ ph_engine \in Engines
    /\ ph_pc = "loop"
    /\ ph_k = 1
    /\ ph_placeholder_id = 1
    /\ ph_placeholders = << >>
    /\ ph_chars = << >>

\* il_translator.py:271-344  one iteration of the loop over the
\* compositions.
PHComposition ==
    /\ ph_pc = "loop"
    /\ Len(ph_paragraph) > 1
    /\ ph_k <= Len(ph_paragraph)
    /\ LET composition == ph_paragraph[ph_k]
       IN  IF composition.kind = "pdf_formula"
              THEN LET formula_placeholder ==
                           create_formula_placeholder(ph_engine, composition,
                                                      ph_placeholder_id,
                                                      ph_unicode)
                   IN  /\ ph_placeholders' = Append(ph_placeholders, formula_placeholder)
                       /\ ph_placeholder_id' = NextId(formula_placeholder)
                       /\ ph_chars' = ph_chars \o formula_placeholder.tokens[1]
              ELSE IF composition.kind = "pdf_line"
                         \/ ph_disable \/ PHSameAsBase(composition)
                      THEN /\ ph_chars' = ph_chars \o composition.text
                           /\ UNCHANGED << ph_placeholders, ph_placeholder_id >>
                      ELSE LET placeholder ==
                                   RichTextPlaceholder(ph_engine, composition,
                                                       ph_placeholder_id,
                                                       ph_unicode)
                           IN  /\ ph_placeholders' = Append(ph_placeholders, placeholder)
                               /\ ph_placeholder_id' = NextId(placeholder)
                               /\ ph_chars' = ph_chars \o placeholder.tokens[1]
                                                 \o composition.text
                                                 \o placeholder.tokens[2]
    /\ ph_k' = ph_k + 1
    /\ UNCHANGED << ph_paragraph, ph_unicode, ph_disable, ph_engine, ph_pc >>
    /\ UNCHANGED nonPH

\* il_translator.py:236-256, 346-355  the return: at once for a single
\* composition; after the loop, with rich text disabled and from the start
\* when there are more than 50 ph_placeholders.
PHReturn ==
    /\ ph_pc = "loop"
    /\ Len(ph_paragraph) = 1 \/ ph_k > Len(ph_paragraph)
    /\ IF Len(ph_paragraph) > 1 /\ Len(ph_placeholders) > 50 /\ ~ph_disable
          THEN /\ ph_disable' = TRUE
               /\ ph_k' = 1
               /\ ph_placeholder_id' = 1
               /\ ph_placeholders' = << >>
               /\ ph_chars' = << >>
               /\ UNCHANGED ph_pc
          ELSE /\ ph_pc' = "returned"
               /\ ph_chars' = IF Len(ph_paragraph) = 1
                                 THEN IF ph_paragraph[1].kind = "pdf_formula"
                                         THEN << >> ELSE ph_unicode
                                 ELSE ph_chars
               /\ UNCHANGED << ph_disable, ph_k, ph_placeholder_id, ph_placeholders >>
    /\ UNCHANGED << ph_paragraph, ph_unicode, ph_engine >>
    /\ UNCHANGED nonPH

(***************************************************************************)
(* ILCreater: the passthrough per-character instructions and the xobj ids, *)
(* driven by the calls PDFPageInterpreterEx makes while it executes the    *)
(* content streams of the pages of one document.                           *)
(***************************************************************************)
\* Number of calls made in one document.
MaxEvents == 6

\* il_creater.py:41-42  operators matching ^(sc|scn|g|rg|k|cs|gs|ri)$ and
\* their joined arguments.
ColourInstructions == { << "sc", "0" >>, << "sc", "1" >>, << "g", "0" >> }

\* il_creater.py:50-55  the list without its first instruction of the
\* operator, the new instruction appended.
RECURSIVE RemoveFirst(_, _)
RemoveFirst(list, operator) ==
    IF list = << >> THEN << >>
    ELSE IF Head(list)[1] = operator THEN Tail(list)
    ELSE << Head(list) >> \o RemoveFirst(Tail(list), operator)

on_passthrough_per_char(list, instruction) ==
    Append(RemoveFirst(list, instruction[1]), instruction)

NoScope == [kind |-> "none", held |-> << >>, xobj_id |-> 0]

\* pdfinterp.py:377  the graphics stack of the interpreter that executes
\* the current stream is not empty: the innermost open scope is a q of this
\* stream (each form XObject is executed by an interpreter of its own).
InnermostIs(kind) ==
    ic_scopes # << >> /\ ic_scopes[Len(ic_scopes)].kind = kind

\* The innermost open form XObject, 0 at page level.
RECURSIVE InnermostXobj(_)
InnermostXobj(scopes) ==
    IF scopes = << >> THEN 0
    ELSE IF scopes[Len(scopes)].kind = "xobj" THEN Len(scopes)
    ELSE InnermostXobj(SubSeq(scopes, 1, Len(scopes) - 1))

\* il_creater.py:69-79  pop_passthrough_per_char_instruction: the list
\* after it.
PoppedInstruction(list, stack) ==
    IF stack # << >> THEN stack[Len(stack)] ELSE << >>

PoppedStack(stack) ==
    IF stack # << >> THEN SubSeq(stack, 1, Len(stack) - 1) ELSE << >>

pop_xobj_Keep(id, stack) == id

\* il_creater.py:104-105  pop_xobj: the xobj id saved last.
pop_xobj(id, stack) == stack[Len(stack)]

ICIdle ==
    /\ passthrough_per_char_instruction = << >>
    /\ passthrough_per_char_instruction_stack = << >>
    /\ xobj_id = 0
    /\ xobj_inc = 0
    /\ xobj_stack = << >>
    /\ ic_pc = "idle"
    /\ ic_scopes = << >>
    /\ ic_returned = << >>
    /\ ic_last = [call |-> "none", closed |-> NoScope, empty |-> FALSE]
    /\ ic_events = 0

\* il_creater.py:30-36 and 133-147, pdfinterp.py:332, 400-401  the
\* creater after __init__, on_page_start of the first page and on_new_stream
\* of its first content stream.
ICInit ==
    /\ passthrough_per_char_instruction = << >>
    /\ passthrough_per_char_instruction_stack = << >>
    /\ xobj_id = 0
    /\ xobj_inc = 0
    /\ xobj_stack = << >>
    /\ ic_pc = "page"
    /\ ic_scopes = << >>
    /\ ic_returned = << >>
    /\ ic_last = [call |-> "on_page_start", closed |-> NoScope, empty |-> FALSE]
    /\ ic_events = 0

\* il_creater.py:44-56  a colour operator of the stream.
ICPassthrough ==
    /\ ic_pc = "page"
    /\ ic_events < MaxEvents
    /\ \E instruction \in ColourInstructions :
          passthrough_per_char_instruction' =
              on_passthrough_per_char(passthrough_per_char_instruction, instruction)
    /\ ic_last' = [call |-> "on_passthrough_per_char", closed |-> NoScope,
                   empty |-> FALSE]
    /\ ic_events' = ic_events + 1
    /\ UNCHANGED << passthrough_per_char_instruction_stack, xobj_id, xobj_inc,
                    xobj_stack, ic_pc, ic_scopes, ic_returned >>
    /\ UNCHANGED nonIC

\* pdfinterp.py:369-373, il_creater.py:81-84  q
IC_q ==
    /\ ic_pc = "page"
    /\ ic_events < MaxEvents
    /\ passthrough_per_char_instruction_stack' =
          Append(passthrough_per_char_instruction_stack,
                 passthrough_per_char_instruction)
    /\ ic_scopes' = Append(ic_scopes,
                           [kind |-> "q", held |-> passthrough_per_char_instruction,
                            xobj_id |-> xobj_id])
    /\ ic_last' = [call |-> "q", closed |-> NoScope, empty |-> FALSE]
    /\ ic_events' = ic_events + 1
    /\ UNCHANGED << passthrough_per_char_instruction, xobj_id, xobj_inc,
                    xobj_stack, ic_pc, ic_returned >>
    /\ UNCHANGED nonIC

\* pdfinterp.py:375-380, il_creater.py:69-79  Q: the interpreter restores
\* its graphics state when its own stack holds one; the creater pops its
\* stack, or empties the list when the stack is empty.
IC_Q ==
    /\ ic_pc = "page"
    /\ ic_events < MaxEvents
    /\ passthrough_per_char_instruction' =
          PoppedInstruction(passthrough_per_char_instruction,
                            passthrough_per_char_instruction_stack)
    /\ passthrough_per_char_instruction_stack' =
          PoppedStack(passthrough_per_char_instruction_stack)
    /\ IF InnermostIs("q")
          THEN /\ ic_scopes' = SubSeq(ic_scopes, 1, Len(ic_scopes) - 1)
               /\ ic_last' = [call |-> "Q", closed |-> ic_scopes[Len(ic_scopes)],
                              empty |-> passthrough_per_char_instruction_stack = << >>]
          ELSE /\ UNCHANGED ic_scopes
               /\ ic_last' = [call |-> "Q", closed |-> NoScope,
                              empty |-> passthrough_per_char_instruction_stack = << >>]
    /\ ic_events' = ic_events + 1
    /\ UNCHANGED << xobj_id, xobj_inc, xobj_stack, ic_pc, ic_returned >>
    /\ UNCHANGED nonIC

\* pdfinterp.py:273-284, il_creater.py:98-124 and 93-96  Do of a form
\* XObject: on_xobj_begin, then a new interpreter executes the form's
\* stream, which starts with on_new_stream.
ICXobjBegin ==
    /\ ic_pc = "page"
    /\ ic_events < MaxEvents
    /\ passthrough_per_char_instruction_stack' =
          Append(passthrough_per_char_instruction_stack,
                 passthrough_per_char_instruction)
    /\ xobj_stack' = Append(xobj_stack, xobj_id)
    /\ xobj_inc' = xobj_inc + 1
    /\ xobj_id' = xobj_inc'
    /\ ic_returned' = Append(ic_returned, xobj_id')
    /\ passthrough_per_char_instruction' = << >>
    /\ ic_scopes' = Append(ic_scopes,
                           [kind |-> "xobj", held |-> passthrough_per_char_instruction,
                            xobj_id |-> xobj_id])
    /\ ic_last' = [call |-> "on_xobj_begin", closed |-> NoScope, empty |-> FALSE]
    /\ ic_events' = ic_events + 1
    /\ UNCHANGED ic_pc
    /\ UNCHANGED nonIC

\* pdfinterp.py:284-292, il_creater.py:126-131  the form's stream is at
\* its end: on_xobj_end.  The q scopes the form left open end with its
\* interpreter.
ICXobjEnd ==
    /\ ic_pc = "page"
    /\ ic_events < MaxEvents
    /\ InnermostXobj(ic_scopes) # 0
    /\ passthrough_per_char_instruction' =
          PoppedInstruction(passthrough_per_char_instruction,
                            passthrough_per_char_instruction_stack)
    /\ passthrough_per_char_instruction_stack' =
          PoppedStack(passthrough_per_char_instruction_stack)
    /\ xobj_id' = pop_xobj(xobj_id, xobj_stack)
    /\ xobj_stack' = SubSeq(xobj_stack, 1, Len(xobj_stack) - 1)
    /\ xobj_inc' = xobj_inc + 1
    /\ ic_scopes' = SubSeq(ic_scopes, 1, InnermostXobj(ic_scopes) - 1)
    /\ ic_last' = [call |-> "on_xobj_end",
                   closed |-> ic_scopes[InnermostXobj(ic_scopes)],
                   empty |-> passthrough_per_char_instruction_stack = << >>]
    /\ ic_events' = ic_events + 1
    /\ UNCHANGED << ic_pc, ic_returned >>
    /\ UNCHANGED nonIC

\* pdfinterp.py:400-401, il_creater.py:93-96  the next content stream of
\* the page: on_new_stream.
ICNewStream ==
    /\ ic_pc = "page"
    /\ ic_events < MaxEvents
    /\ InnermostXobj(ic_scopes) = 0
    /\ passthrough_per_char_instruction' = << >>
    /\ ic_last' = [call |-> "on_new_stream", closed |-> NoScope, empty |-> FALSE]
    /\ ic_events' = ic_events + 1
    /\ UNCHANGED << passthrough_per_char_instruction_stack, xobj_id, xobj_inc,
                    xobj_stack, ic_pc, ic_scopes, ic_returned >>
    /\ UNCHANGED nonIC

\* pdfinterp.py:332-335, il_creater.py:133-147 and 93-96  the next page:
\* on_page_start, then on_new_stream of its first stream.  The page before
\* it is at its end, so no form XObject is open.
ICPageStart ==
    /\ ic_pc = "page"
    /\ ic_events < MaxEvents
    /\ InnermostXobj(ic_scopes) = 0
    /\ passthrough_per_char_instruction_stack' = << >>
    /\ xobj_stack' = << >>
    /\ passthrough_per_char_instruction' = << >>
    /\ ic_scopes' = << >>
    /\ ic_last' = [call |-> "on_page_start", closed |-> NoScope, empty |-> FALSE]
    /\ ic_events' = ic_events + 1
    /\ UNCHANGED << xobj_id, xobj_inc, ic_pc, ic_returned >>
    /\ UNCHANGED nonIC

(***************************************************************************)
(* StylesAndFormulas.process_translatable_formulas                         *)
(***************************************************************************)
\* Longest text of a formula.
MaxFormulaLen == 2

\* char_unicode of the characters of a formula: a digit, the comma, the
\* space, a letter and a line feed.
FormulaChars == {"1", ",", " ", "x", "LF"}

FormulaTexts == UNION {[1..n -> FormulaChars] : n \in 1..MaxFormulaLen}

\* styles_and_formulas.py:401-411  y_offset in hundredths of a point, as
\* process_page_offsets leaves it: 0, or at least 0.1 away from 0.
YOffsets == {-200, -10, 0, 10, 11, 200}

TFLine == [kind |-> "pdf_line", text |-> << "x" >>, y_offset |-> 0]

TFFormulas ==
    {[kind |-> "pdf_formula", text |-> t, y_offset |-> y] :
        t \in FormulaTexts, y \in YOffsets}

TFParagraphs ==
    UNION {{<< f >>, << TFLine, f >>, << f, TFLine >>} : f \in TFFormulas}

\* styles_and_formulas.py:479  re.match(r"^[0-9, ]+$", text): one or more
\* digits, commas and spaces up to the end of the text or up to a line feed
\* that ends the text.
MatchesDigitsCommasSpaces(text) ==
    LET body == IF text # << >> /\ text[Len(text)] = "LF"
                   THEN {SubSeq(text, 1, Len(text) - 1), text}
                   ELSE {text}
    IN  \E b \in body :
           /\ b # << >>
           /\ \A i \in DOMAIN b : b[i] \in {"1", ",", " "}

\* styles_and_formulas.py:474-479
is_translatable_formula(formula) ==
    IF formula.y_offset > 10 THEN FALSE
    ELSE MatchesDigitsCommasSpaces(formula.text)

\* styles_and_formulas.py:146-169  the new composition list of a
\* paragraph: a translatable formula becomes a PdfLine of its characters.
process_translatable_formulas(compositions) ==
    [k \in DOMAIN compositions |->
        IF compositions[k].kind = "pdf_formula"
              /\ is_translatable_formula(compositions[k])
           THEN [kind |-> "pdf_line", text |-> compositions[k].text, y_offset |-> 0]
           ELSE compositions[k]]

TFIdle ==
    /\ tf_paragraph = << >>
    /\ tf_pc = "idle"
    /\ tf_result = << >>

\* styles_and_formulas.py:41-48  a paragraph after the second
\* process_page_offsets.
TFInit ==
    /\ tf_paragraph \in TFParagraphs
    /\ tf_pc = "call"
    /\ tf_result = << >>

TFProcess ==
    /\ tf_pc = "call"
    /\ tf_result' = process_translatable_formulas(tf_paragraph)
    /\ tf_pc' = "returned"
    /\ UNCHANGED tf_paragraph
    /\ UNCHANGED nonTF

(***************************************************************************)
(* StylesAndFormulas.process_comma_formulas                                *)
(***************************************************************************)
\* Longest formula, in characters.
MaxCommaLen == 3

\* char_unicode of the characters of a formula: a symbol, the comma and a
\* bracket pair of LEFT_BRACKET / RIGHT_BRACKET.
CommaChars == {"x", ",", "[", "]"}

\* layout_helper.py:36-37
LEFT_BRACKET == {"(cid:8)", "(", "(cid:16)", "{", "[", "(cid:104)", "(cid:2)"}

RIGHT_BRACKET == {"(cid:9)", ")", "(cid:17)", "}", "]", "(cid:105)", "(cid:3)"}

CommaFormulas ==
    {[kind |-> "pdf_formula", chars |-> t] :
        t \in UNION {[1..n -> CommaChars] : n \in 1..MaxCommaLen}}

CFLine == [kind |-> "pdf_line", chars |-> << "a" >>]

\* A paragraph of one or two compositions, each a line or a formula.
CFParagraphs ==
    LET comps == CommaFormulas \cup {CFLine}
    IN  {<< c >> : c \in comps} \cup {<< c, e >> : c \in comps, e \in comps}

\* styles_and_formulas.py:559-567  the text holds a comma and, once
\* digits, square brackets, commas and white space are removed, something
\* else.
should_split_formula(formula) ==
    /\ \E i \in DOMAIN formula.chars : formula.chars[i] = ","
    /\ \E i \in DOMAIN formula.chars :
          formula.chars[i] \notin {"0", "1", "2", "3", "4", "5", "6", "7",
                                   "8", "9", "[", "]", ",", " "}

\* The comma of the last group of split_formula_by_comma.
NoComma == "None"

\* styles_and_formulas.py:584-598  the loop of split_formula_by_comma from
\* character i on; a comma outside brackets that finds current_chars empty
\* is neither appended nor returned.
RECURSIVE SplitFrom(_, _, _, _, _)
SplitFrom(chars, i, result, current_chars, bracket_level) ==
    IF i > Len(chars)
       THEN IF current_chars # << >>
               THEN Append(result, [chars |-> current_chars, comma |-> NoComma])
               ELSE result
       ELSE LET c == chars[i]
            IN  IF c \in LEFT_BRACKET
                   THEN SplitFrom(chars, i + 1, result,
                                  Append(current_chars, c), bracket_level + 1)
                ELSE IF c \in RIGHT_BRACKET
                   THEN SplitFrom(chars, i + 1, result,
                                  Append(current_chars, c),
                                  IF bracket_level - 1 > 0
                                     THEN bracket_level - 1 ELSE 0)
                ELSE IF c = "," /\ bracket_level = 0
                   THEN IF current_chars # << >>
                           THEN SplitFrom(chars, i + 1,
                                          Append(result,
                                                 [chars |-> current_chars,
                                                  comma |-> c]),
                                          << >>, bracket_level)
                           ELSE SplitFrom(chars, i + 1, result,
                                          current_chars, bracket_level)
                ELSE SplitFrom(chars, i + 1, result,
                               Append(current_chars, c), bracket_level)

\* styles_and_formulas.py:569-603
split_formula_by_comma(formula) ==
    SplitFrom(formula.chars, 1, << >>, << >>, 0)

\* styles_and_formulas.py:683-696  the compositions of the groups from
\* group g on: a formula per group, and a one-comma line after a group that
\* has a comma.
RECURSIVE GroupCompositions(_, _)
GroupCompositions(char_groups, g) ==
    IF g > Len(char_groups) THEN << >>
    ELSE LET grp == char_groups[g]
             formula == IF grp.chars # << >>
                           THEN << [kind |-> "pdf_formula", chars |-> grp.chars] >>
                           ELSE << >>
             comma_line == IF grp.chars # << >> /\ grp.comma # NoComma
                              THEN << [kind |-> "pdf_line",
                                       chars |-> << grp.comma >>] >>
                              ELSE << >>
         IN  formula \o comma_line \o GroupCompositions(char_groups, g + 1)

\* styles_and_formulas.py:677-699  what one composition adds to
\* new_compositions.
SplitComposition(composition) ==
    IF composition.kind = "pdf_formula" /\ should_split_formula(composition)
       THEN GroupCompositions(split_formula_by_comma(composition), 1)
       ELSE << composition >>

CFIdle ==
    /\ cf_paragraph = << >>
    /\ cf_pc = "idle"
    /\ cf_k = 0
    /\ new_compositions = << >>
    /\ cf_result = << >>

\* styles_and_formulas.py:672-676  process_comma_formulas reaches a
\* paragraph that has compositions.
CFInit ==
    /\ cf_paragraph \in CFParagraphs
    /\ cf_pc = "loop"
    /\ cf_k = 1
    /\ new_compositions = << >>
    /\ cf_result = cf_paragraph

\* styles_and_formulas.py:677-699  one iteration of the loop over the
\* paragraph's compositions.
CFComposition ==
    /\ cf_pc = "loop"
    /\ cf_k <= Len(cf_paragraph)
    /\ new_compositions' = new_compositions \o SplitComposition(cf_paragraph[cf_k])
    /\ cf_k' = cf_k + 1
    /\ UNCHANGED << cf_paragraph, cf_pc, cf_result >>
    /\ UNCHANGED nonCF

\* styles_and_formulas.py:701  the loop is over: the paragraph gets the new
\* list.
CFReturn ==
    /\ cf_pc = "loop"
    /\ cf_k > Len(cf_paragraph)
    /\ cf_result' = new_compositions
    /\ cf_pc' = "returned"
    /\ UNCHANGED << cf_paragraph, cf_k, new_compositions >>
    /\ UNCHANGED nonCF

(***************************************************************************)
(* StylesAndFormulas._calculate_base_style                                 *)
(***************************************************************************)
\* Most characters in the lines of a paragraph.
MaxBaseChars == 3

\* font_size in thousandths of a point: two sizes 0.01pt apart and one
\* 2pt away.
BaseFontSizes == {10000, 10010, 12000}

BaseFontIds == {"f", "g"}

\* None, as font_id, as font_size and as a field of a graphic state.
NoFontId == "None"

NoFontSize == -1

NoField == "None"

\* Two fields of GraphicState; linewidth is the same everywhere.
BaseGraphicStates == {[linewidth |-> "1", ncolor |-> c] : c \in {"r", "b"}}

CharStyles ==
    [font_id : BaseFontIds, font_size : BaseFontSizes,
     graphic_state : BaseGraphicStates]

BSLine(ss) == [kind |-> "pdf_line", styles |-> ss]

\* A formula between two lines; its character has a style of its own.
BSFormula ==
    [kind |-> "pdf_formula",
     styles |-> << [font_id |-> "m", font_size |-> 20000,
                    graphic_state |-> [linewidth |-> "2", ncolor |-> "k"]] >>]

\* One line, or two lines around a formula.
BSParagraphs ==
    LET lists == UNION {[1..n -> CharStyles] : n \in 1..MaxBaseChars}
    IN  {<< BSLine(ss) >> : ss \in lists}
        \cup {<< BSLine(SubSeq(ss, 1, j)), BSFormula,
                 BSLine(SubSeq(ss, j + 1, Len(ss))) >> :
                 ss \in {l \in lists : Len(l) = 2}, j \in {1}}

\* styles_and_formulas.py:288-326  a field is kept where both states have
\* the same value.
merge_graphic_states(state1, state2) ==
    [linewidth |-> IF state1.linewidth = state2.linewidth
                      THEN state1.linewidth ELSE NoField,
     ncolor |-> IF state1.ncolor = state2.ncolor
                   THEN state1.ncolor ELSE NoField]

Fabs(x) == IF x < 0 THEN -x ELSE x

\* styles_and_formulas.py:268-286  a style whose font_size is None gives
\* way to the other style as a whole.
merge_styles(style1, style2) ==
    IF style1.font_size = NoFontSize THEN style2
    ELSE IF style2.font_size = NoFontSize THEN style1
    ELSE [font_id |-> IF style1.font_id = style2.font_id
                         THEN style1.font_id ELSE NoFontId,
          font_size |-> IF Fabs(style1.font_size - style2.font_size) < 20
                           THEN style1.font_size ELSE NoFontSize,
          graphic_state |-> merge_graphic_states(style1.graphic_state,
                                                 style2.graphic_state)]

\* How often v occurs in a list.
Occurrences(vals, v) == Cardinality({i \in DOMAIN vals : vals[i] = v})

\* styles_and_formulas.py:259-266  Counter(values).most_common(1): the most
\* frequent value, the one met first among equally frequent ones.
get_mode_value(vals) ==
    LET first(v) == CHOOSE i \in DOMAIN vals :
                       /\ vals[i] = v
                       /\ \A j \in DOMAIN vals : vals[j] = v => i <= j
        best == CHOOSE i \in DOMAIN vals :
                   /\ first(vals[i]) = i
                   /\ \A j \in DOMAIN vals :
                         \/ Occurrences(vals, vals[i]) > Occurrences(vals, vals[j])
                         \/ /\ Occurrences(vals, vals[i]) = Occurrences(vals, vals[j])
                            /\ i <= first(vals[j])
    IN  vals[best]

\* styles_and_formulas.py:252-255  font_id and font_size that the merge
\* left None become the mode over all collected styles.
FillModes(style, ss) ==
    [style EXCEPT
        !.font_id = IF style.font_id = NoFontId
                       THEN get_mode_value([i \in DOMAIN ss |-> ss[i].font_id])
                       ELSE @,
        !.font_size = IF style.font_size = NoFontSize
                         THEN get_mode_value([i \in DOMAIN ss |-> ss[i].font_size])
                         ELSE @]

\* styles_and_formulas.py:246-249  the fold of _merge_styles from style k on.
RECURSIVE MergeFrom(_, _, _)
MergeFrom(style, ss, k) ==
    IF k > Len(ss) THEN style
    ELSE MergeFrom(merge_styles(style, ss[k]), ss, k + 1)

\* styles_and_formulas.py:231-257  the style returned for a non-empty list
\* of collected styles.
calculate_base_style(ss) == FillModes(MergeFrom(ss[1], ss, 2), ss)

NoStyle == [font_id |-> NoFontId, font_size |-> NoFontSize,
            graphic_state |-> [linewidth |-> NoField, ncolor |-> NoField]]

BSIdle ==
    /\ bs_paragraph = << >>
    /\ bs_pc = "idle"
    /\ bs_k = 0
    /\ styles = << >>
    /\ base_style = NoStyle

\* styles_and_formulas.py:181, 231-233  process_page_styles calls
\* _calculate_base_style on a paragraph that has compositions.
BSInit ==
    /\ bs_paragraph \in BSParagraphs
    /\ bs_pc = "collect"
    /\ bs_k = 1
    /\ styles = << >>
    /\ base_style = NoStyle

\* styles_and_formulas.py:234-240  one composition of the collecting loop:
\* the styles of a line's characters are appended, a formula is skipped.
BSCollect ==
    /\ bs_pc = "collect"
    /\ bs_k <= Len(bs_paragraph)
    /\ styles' = IF bs_paragraph[bs_k].kind = "pdf_line"
                    THEN styles \o bs_paragraph[bs_k].styles
                    ELSE styles
    /\ bs_k' = bs_k + 1
    /\ UNCHANGED << bs_paragraph, bs_pc, base_style >>
    /\ UNCHANGED nonBS

\* styles_and_formulas.py:242-246  the collecting loop is over and the
\* fold starts from styles[0].
BSFirst ==
    /\ bs_pc = "collect"
    /\ bs_k > Len(bs_paragraph)
    /\ styles # << >>
    /\ base_style' = styles[1]
    /\ bs_k' = 2
    /\ bs_pc' = "merge"
    /\ UNCHANGED << bs_paragraph, styles >>
    /\ UNCHANGED nonBS

\* styles_and_formulas.py:247-249  one iteration of the merging loop.
BSMerge ==
    /\ bs_pc = "merge"
    /\ bs_k <= Len(styles)
    /\ base_style' = merge_styles(base_style, styles[bs_k])
    /\ bs_k' = bs_k + 1
    /\ UNCHANGED << bs_paragraph, bs_pc, styles >>
    /\ UNCHANGED nonBS

\* styles_and_formulas.py:251-257  the modes are filled in and the style is
\* returned.
BSReturn ==
    /\ bs_pc = "merge"
    /\ bs_k > Len(styles)
    /\ base_style' = FillModes(base_style, styles)
    /\ bs_pc' = "returned"
    /\ UNCHANGED << bs_paragraph, bs_k, styles >>
    /\ UNCHANGED nonBS

(***************************************************************************)
(* Specifications                                                          *)
(***************************************************************************)
InitRL == RLInit /\ TRIdle /\ PIIdle /\ DSIdle /\ PMIdle /\ SPIdle /\ TSIdle /\ RTIdle /\ PFIdle /\ LYIdle /\ PHIdle /\ ICIdle /\ TFIdle /\ CFIdle /\ BSIdle

NextRL ==
    \/ RLTick
    \/ \E t \in Threads : RLCall(t)
    \/ \E t \in Threads : RLLock(t)
    \/ \E t \in Threads : RLClean(t)
    \/ \E t \in Threads : RLAdmit(t)
    \/ \E t \in Threads : RLFull(t)
    \/ \E t \in Threads : RLSleep(t)
    \/ \E t \in Threads : RLRecord(t)

SpecRL == InitRL /\ [][NextRL]_vars

InitTR == TRInit /\ RLIdle /\ PIIdle /\ DSIdle /\ PMIdle /\ SPIdle /\ TSIdle /\ RTIdle /\ PFIdle /\ LYIdle /\ PHIdle /\ ICIdle /\ TFIdle /\ CFIdle /\ BSIdle

NextTR ==
    \/ TRCancel
    \/ TRPreStages
    \/ TRProcessPage
    \/ TRSubmit
    \/ TRJoin
    \/ \E p \in Paras : TaskStart(p)
    \/ \E p \in Paras : TaskInput(p)
    \/ \E p \in Paras : TaskEngine(p)
    \/ \E p \in Paras : TaskParse(p)
    \/ \E p \in Paras : TaskAdvance(p)
    \/ TRWatermark
    \/ TRTypesetPage
    \/ TRWrite
    \/ TRDone
    \/ TRExcept
    \/ TRFinally

SpecTR == InitTR /\ [][NextTR]_vars

InitPI == PIInit /\ TRInitParse /\ RLIdle /\ DSIdle /\ PMIdle /\ SPIdle /\ TSIdle /\ RTIdle /\ PFIdle /\ LYIdle /\ PHIdle /\ ICIdle /\ TFIdle /\ CFIdle /\ BSIdle

NextPI ==
    \/ TRCancel
    \/ PIPage
    \/ PIFinish
    \/ TRExcept
    \/ TRFinally

SpecPI == InitPI /\ [][NextPI]_vars

InitDS == DSInit /\ RLIdle /\ TRIdle /\ PIIdle /\ PMIdle /\ SPIdle /\ TSIdle /\ RTIdle /\ PFIdle /\ LYIdle /\ PHIdle /\ ICIdle /\ TFIdle /\ CFIdle /\ BSIdle

NextDS ==
    \/ DSPage
    \/ DSVerdict

SpecDS == InitDS /\ [][NextDS]_vars

InitPM == PMInit /\ RLIdle /\ TRIdle /\ PIIdle /\ DSIdle /\ SPIdle /\ TSIdle /\ RTIdle /\ PFIdle /\ LYIdle /\ PHIdle /\ ICIdle /\ TFIdle /\ CFIdle /\ BSIdle

NextPM ==
    \/ \E s \in Stages : PMStageStart(s)
    \/ PMAdvance
    \/ PMTick
    \/ PMStageDone
    \/ PMStageAbort

SpecPM == InitPM /\ [][NextPM]_vars

InitSP == SPInit /\ RLIdle /\ TRIdle /\ PIIdle /\ DSIdle /\ PMIdle /\ TSIdle /\ RTIdle /\ PFIdle /\ LYIdle /\ PHIdle /\ ICIdle /\ TFIdle /\ CFIdle /\ BSIdle

NextSP ==
    \/ SPCancel
    \/ SPProcessExits
    \/ SPWhile
    \/ SPIfTimeout
    \/ SPSleep

SpecSP == InitSP /\ [][NextSP]_vars

InitTS == TSInit /\ RLIdle /\ TRIdle /\ PIIdle /\ DSIdle /\ PMIdle /\ SPIdle /\ RTIdle /\ PFIdle /\ LYIdle /\ PHIdle /\ ICIdle /\ TFIdle /\ CFIdle /\ BSIdle

NextTS ==
    \/ TSPassthrough
    \/ TSRetypeset
    \/ TSFit
    \/ TSExpand
    \/ TSShrink
    \/ TSRecurse
    \/ TSGiveUp

SpecTS == InitTS /\ [][NextTS]_vars

InitRT == RTInit /\ RLIdle /\ TRIdle /\ PIIdle /\ DSIdle /\ PMIdle /\ SPIdle /\ TSIdle /\ PFIdle /\ LYIdle /\ PHIdle /\ ICIdle /\ TFIdle /\ CFIdle /\ BSIdle

NextRT ==
    \/ RTGetInput
    \/ RTTranslate
    \/ RTParse

SpecRT == InitRT /\ [][NextRT]_vars

InitPF == PFInit /\ RLIdle /\ TRIdle /\ PIIdle /\ DSIdle /\ PMIdle /\ SPIdle /\ TSIdle /\ RTIdle /\ LYIdle /\ PHIdle /\ ICIdle /\ TFIdle /\ CFIdle /\ BSIdle

NextPF ==
    \/ PFSkipChar
    \/ PFTextChar
    \/ PFLastLine
    \/ PFIndependent

SpecPF == InitPF /\ [][NextPF]_vars

InitLY == LYInit /\ RLIdle /\ TRIdle /\ PIIdle /\ DSIdle /\ PMIdle /\ SPIdle /\ TSIdle /\ RTIdle /\ PFIdle /\ PHIdle /\ ICIdle /\ TFIdle /\ CFIdle /\ BSIdle

NextLY ==
    \/ LYUnit
    \/ LYReturn

SpecLY == InitLY /\ [][NextLY]_vars

InitPH == PHInit /\ RLIdle /\ TRIdle /\ PIIdle /\ DSIdle /\ PMIdle /\ SPIdle /\ TSIdle /\ RTIdle /\ PFIdle /\ LYIdle /\ ICIdle /\ TFIdle /\ CFIdle /\ BSIdle

NextPH ==
    \/ PHComposition
    \/ PHReturn

SpecPH == InitPH /\ [][NextPH]_vars

InitIC == ICInit /\ RLIdle /\ TRIdle /\ PIIdle /\ DSIdle /\ PMIdle /\ SPIdle /\ TSIdle /\ RTIdle /\ PFIdle /\ LYIdle /\ PHIdle /\ TFIdle /\ CFIdle /\ BSIdle

NextIC ==
    \/ ICPassthrough
    \/ IC_q
    \/ IC_Q
    \/ ICXobjBegin
    \/ ICXobjEnd
    \/ ICNewStream
    \/ ICPageStart

SpecIC == InitIC /\ [][NextIC]_vars

InitTF == TFInit /\ RLIdle /\ TRIdle /\ PIIdle /\ DSIdle /\ PMIdle /\ SPIdle /\ TSIdle /\ RTIdle /\ PFIdle /\ LYIdle /\ PHIdle /\ ICIdle /\ CFIdle /\ BSIdle

NextTF == TFProcess

SpecTF == InitTF /\ [][NextTF]_vars

InitCF == CFInit /\ RLIdle /\ TRIdle /\ PIIdle /\ DSIdle /\ PMIdle /\ SPIdle /\ TSIdle /\ RTIdle /\ PFIdle /\ LYIdle /\ PHIdle /\ ICIdle /\ TFIdle /\ BSIdle

NextCF ==
    \/ CFComposition
    \/ CFReturn

SpecCF == InitCF /\ [][NextCF]_vars

InitBS == BSInit /\ RLIdle /\ TRIdle /\ PIIdle /\ DSIdle /\ PMIdle /\ SPIdle /\ TSIdle /\ RTIdle /\ PFIdle /\ LYIdle /\ PHIdle /\ ICIdle /\ TFIdle /\ CFIdle

NextBS ==
    \/ BSCollect
    \/ BSFirst
    \/ BSMerge
    \/ BSReturn

SpecBS == InitBS /\ [][NextBS]_vars

(***************************************************************************)
(* Claims                                                                  *)
(***************************************************************************)

\* C1: on a limiter with constant max_qps = N, the first N wait() calls
\* return without sleeping, and a call that finds the window full (the
\* (N+1)th of a back-to-back burst) returns only when at least one second
\* has passed since the timestamp at the head of the current window.
C1_BurstWaitsOneSecond ==
    \A i \in 1..Len(rl_log) :
        /\ (i <= max_qps => ~rl_log[i].slept)
        /\ (rl_log[i].head # -1 => rl_log[i].ret >= rl_log[i].head + Second)

C1_Witness ==
    /\ Len(rl_log) > max_qps
    /\ rl_log[max_qps + 1].slept
    /\ rl_log[max_qps + 1].head = rl_log[1].stamp
    /\ rl_log[max_qps + 1].ret >= rl_log[1].stamp + Second

\* C2: for every interleaving of worker threads, last_requests is read and
\* changed only by the thread holding the lock, never holds more than
\* max_qps entries, and the k-th admitted call is recorded at least one
\* second after the (k - max_qps)-th.
C2_SlidingWindowSerialized ==
    /\ ~rl_unlocked
    /\ Len(last_requests) <= max_qps
    /\ \A k \in 1..Len(rl_log) :
          k > max_qps => rl_log[k].stamp >= rl_log[k - max_qps].stamp + Second

C2_Witness ==
    /\ Len(rl_log) > max_qps
    /\ \E i, j \in 1..Len(rl_log) : rl_log[i].thread # rl_log[j].thread
    /\ \E t \in Threads : rl_pc[t] = "acquire" /\ lock \notin {0, t}

\* C3: once the caller has set the cancellation event while
\* ILTranslator.translate is running, every translate_paragraph task that
\* starts afterwards ends without calling the translator engine, and
\* do_translate ends by raising CancelledError: no event is ever reported by
\* translate_done or by translate_error.
C3_CancelDuringTranslate ==
    tr_cancelled_at \in InTranslate =>
        /\ \A p \in Paras : tk_after_cancel[p] =>
              (~tk_engine[p] /\ tk_state[p] = "raised")
        /\ \A i \in 1..Len(tr_events) :
              tr_events[i].by \notin {"translate_done", "translate_error"}
        /\ tr_result \in {"running", "CancelledError"}
        /\ (tr_pc = "end" => tr_result = "CancelledError")

C3_Witness ==
    /\ tr_cancelled_at \in InTranslate
    /\ tr_pc = "end"
    /\ tr_result = "CancelledError"
    /\ \E p, q \in Paras :
          /\ tk_after_cancel[p] /\ tk_state[p] = "raised"
          /\ ~tk_after_cancel[q] /\ tk_engine[q]

\* C6: an exception raised while translate_paragraph processes a paragraph
\* (building the input, calling the engine, parsing the output) is caught:
\* the task returns normally, the paragraph keeps its original composition
\* list, the run does not fail, and unless the caller cancels every other
\* paragraph is processed and do_translate returns its result.
C6_ParagraphErrorIsolated ==
    \A p \in Paras : tk_exc[p] =>
        /\ tk_state[p] = "done"
        /\ paragraph[p].composition = paragraph[p].original
        /\ tr_result # "Exception"
        /\ (tr_pc = "end" /\ tr_cancelled_at = "never" =>
              /\ tr_result = "returned"
              /\ \A q \in Paras : tk_state[q] = "done")

C6_Witness ==
    /\ tr_pc = "end"
    /\ tr_result = "returned"
    /\ \E p, q \in Paras :
          /\ tk_exc[p] /\ paragraph[p].unicode = "translated"
          /\ paragraph[p].composition = paragraph[p].original
          /\ ~tk_exc[q] /\ q > p
          /\ paragraph[q].composition # paragraph[q].original
\* C4: if interpreting a page's content stream raises, start_parse_il skips
\* that page and still processes every following page it would process
\* otherwise, and the run does not fail because of that page.
C4_UnreadablePageSkipped ==
    \A i \in DOMAIN pi_pages : pi_pages[i] = "unreadable" =>
        /\ tr_exc # "Exception"
        /\ tr_result # "Exception"
        /\ (tr_pc = "parsed" =>
              \A j \in DOMAIN pi_pages : j > i /\ pi_pages[j] = "ok" => j \in pi_parsed)

\* C5: for every number of pages to translate (1 or more), if more than 80%
\* of them are scanned according to detect_page_is_scanned, process raises
\* ScannedPDFError.
C5_MostlyScannedRejected ==
    /\ ds_result \notin {"idle", "running"}
    /\ 5 * Cardinality({i \in DOMAIN ds_pages : ds_pages[i]}) > 4 * Len(ds_pages)
    => ds_result = "ScannedPDFError"

\* The value the overall progress should have: the weights of the stages
\* that have ended plus the running stage's current / total times its
\* weight, as a fraction of total_weight / 100.
ExpectedProgress ==
    IF pm_running # 0
       THEN [n |-> SumWeights(pm_exited \ {pm_running}) * stage[pm_running].total
                     + TRANSLATE_STAGES[pm_running].weight * stage[pm_running].current,
             d |-> stage[pm_running].total]
       ELSE [n |-> SumWeights(pm_exited), d |-> 1]

\* C9: every overall_progress value reported by ProgressMonitor equals 100
\* times (the sum of the normalized weights of the completed stages plus the
\* current stage's current / total times its weight), each stage counted at
\* most once.
C9_OverallProgressExact ==
    [][pm_nreports' # pm_nreports =>
          pm_report'.overall_progress.n * ExpectedProgress'.d
             = ExpectedProgress'.n * pm_report'.overall_progress.d]_vars

\* C10: while subset_fonts_in_subprocess or save_pdf_with_timeout waits for
\* its subprocess, setting the cancellation signal makes the wait loop stop
\* at its next iteration with a cancellation outcome (CancelledError): no
\* iteration that begins with the signal set goes on waiting, and the
\* function does not end with another outcome after such an iteration.
C10_WaitLoopHonoursCancel ==
    sp_iterations_after_cancel > 0 => sp_outcome = "CancelledError"

\* C7: when retypeset finds no (scale, line spacing) combination at which
\* all units fit, even after the retry without the Latin no-break rule, the
\* paragraph holds the characters of the last attempted layout: its
\* composition list is not empty although it had typesetting units.
C7_LastLayoutKept ==
    (ts_pc = "done" /\ ts_calls > 0 /\ ~ts_layout.all_units_fit) =>
        /\ pdf_paragraph_composition # << >>
        /\ Len(pdf_paragraph_composition) = Len(ts_layout.typeset_units)
        /\ \A k \in DOMAIN pdf_paragraph_composition :
              /\ pdf_paragraph_composition[k].unit = ts_layout.typeset_units[k].unit
              /\ pdf_paragraph_composition[k].x = ts_layout.typeset_units[k].x
              /\ pdf_paragraph_composition[k].y = ts_layout.typeset_units[k].y

\* The (scale, line spacing) combinations of the search, in hundredths and
\* tenths.
SearchScales == {100, 95, 90, 85, 80, 75, 70, 65, 60, 50, 40, 30, 20}

SearchLineSpacings == 11..15

\* Layouts one call of retypeset computes at most: one at scale 1.0 before
\* the box is widened, 6 scales times 2 line spacings above the first
\* floor, 13 scales times 5 line spacings above the second.
MaxAttempts == 1 + 6 * 2 + 13 * 5

\* What C8 says of a state: a call computes at most MaxAttempts layouts,
\* relaxes the line-spacing floor at most once, and recurses at most once;
\* once retypeset has returned, either paragraph.scale is a value of at most
\* 1.0 at which all units fit in the box of the returning call, or no
\* combination of the search fits, neither in the first call nor in the
\* second.
C8_SearchIsSound ==
    /\ ts_attempts <= MaxAttempts
    /\ ts_relaxations <= 1
    /\ ts_calls <= 2
    /\ (ts_pc = "done" /\ ts_calls > 0) =>
          IF ts_layout.all_units_fit
             THEN /\ paragraph_scale.n <= 100
                  /\ paragraph_scale.n > 0
                  /\ LET l == layout_typesetting_units(
                                 ts_units, ts_box, paragraph_scale.n,
                                 line_spacing, first_line_indent,
                                 use_english_line_break)
                     IN  /\ l.all_units_fit
                         /\ pdf_paragraph_composition
                               = Rendered(l.typeset_units, paragraph_scale)
             ELSE \A s \in SearchScales, ls \in SearchLineSpacings :
                     /\ ~layout_typesetting_units(ts_units, ts_box_in, s, ls,
                                                  first_line_indent, TRUE).all_units_fit
                     /\ ~layout_typesetting_units(ts_units, paragraph_box, s, ls,
                                                  first_line_indent, FALSE).all_units_fit

\* The number of steps retypeset can still take: it is never negative while
\* C8_SearchIsSound holds.
RetypesetVariant ==
    (2 - ts_calls) * (MaxAttempts + 1) + (MaxAttempts - ts_attempts)
        + (IF ts_pc = "done" THEN 0 ELSE 1)

\* C8: retypeset terminates for every paragraph, box and unit list: every
\* step of the search lowers RetypesetVariant, so the search visits
\* finitely many (scale, line spacing) combinations; it relaxes the
\* line-spacing floor at most once and recurses at most once; when some
\* combination fits it ends with paragraph.scale set to a value of at most
\* 1.0 at which all units fit.
C8_RetypesetTerminates ==
    /\ []C8_SearchIsSound
    /\ [][ts_pc = "while" => RetypesetVariant' < RetypesetVariant]_vars

C8_Witness ==
    /\ ts_pc = "done"
    /\ ts_calls = 2
    /\ ts_relaxations = 1
    /\ ts_layout.all_units_fit
    /\ paragraph_scale.n < 100

C12_JoinedBeforeTypesetting ==
    /\ [](tr_pc \notin {"idle", "pre"} \cup InTranslate =>
             \A p \in Paras : /\ tk_state[p] \in {"none", "done", "raised"}
                              /\ tk_current[p] = NotLoaded)
    /\ [][\A p \in Paras :
             paragraph'[p] # paragraph[p] =>
                 /\ tk_state[p] = "parse"
                 /\ tk_state'[p] = "done"
                 /\ tr_pc \in InTranslate]_vars

C12_Witness ==
    /\ tr_pc = "typeset"
    /\ \A p \in Paras : tk_state[p] = "done"
    /\ \E p \in Paras : paragraph[p].unicode = "translated"
    /\ \E p \in Paras : paragraph[p].unicode = "original"

\* C13: render_paragraph on a paragraph without translated text (no unit
\* comes from a PdfSameStyleUnicodeCharacters run; typesetting.py:790-811 is
\* the only place that makes such a unit) performs no reflow: afterwards
\* the paragraph holds its own characters, in their order and untouched,
\* paragraph.scale is 1.0, its box is unchanged, and neither retypeset nor
\* a layout (relocate) was applied.
C13_UntranslatedPassesThrough ==
    (ts_pc = "done" /\ \A k \in DOMAIN ts_units : ts_units[k].src # "unicode") =>
        /\ pdf_paragraph_composition = Passthrough(ts_units)
        /\ \A k \in DOMAIN pdf_paragraph_composition :
              /\ pdf_paragraph_composition[k].unit = k
              /\ pdf_paragraph_composition[k].scale = 0
        /\ paragraph_scale = ScaleOf(100)
        /\ paragraph_box = ts_box_in
        /\ ts_calls = 0
        /\ ts_attempts = 0
        /\ ts_layout = NoLayout

C13_Witness ==
    /\ ts_pc = "done"
    /\ Len(ts_units) = 2
    /\ ts_units[1].src = "formular"
    /\ ts_units[2].src = "char"
    /\ paragraph_scale = ScaleOf(100)
    /\ ts_calls = 0
    /\ ts_box_in.x2 = 11

\* The text of a composition list without any spacing rule: the
\* characters and unicode strings one after the other.
PlainText(comps) ==
    Flatten([k \in DOMAIN comps |->
                IF comps[k].kind = "pdf_same_style_unicode_characters"
                   THEN comps[k].unicode
                   ELSE [n \in DOMAIN comps[k].chars |-> comps[k].chars[n].char_unicode]])

\* The runs of a composition list, in order.
Runs(comps) == SelectSeq(comps, LAMBDA c : c.kind = "pdf_same_style_characters")

\* C14: for a paragraph with two PdfSameStyleCharacters runs that need
\* placeholders, parse_translate_output applied to the very text that
\* get_translate_input produced returns compositions in which the two runs
\* are the original compositions and whose concatenated text equals the
\* text of the original paragraph.  The text of a paragraph is read either
\* as the code computes paragraph.unicode (get_paragraph_unicode) or as the
\* plain concatenation of the characters; the claim is taken to hold when
\* it holds under one of the two readings.
C14_PlaceholderRoundTrip ==
    ( /\ rt_pc = "parsed"
      /\ Len(translate_input.placeholders) = 2
      /\ translated_text = translate_input.unicode ) =>
        /\ Runs(rt_result) = Runs(rt_paragraph)
        /\ \/ get_paragraph_unicode(rt_result) = get_paragraph_unicode(rt_paragraph)
           \/ PlainText(rt_result) = PlainText(rt_paragraph)

\* the numbers of the page's characters whose layout is region id
CharsOfRegion(id) ==
    { k \in DOMAIN pf_page : get_layout(pf_page[k]).id = id }

\* the characters whose lower edge is at y, in page order
RowOf(y) ==
    SelectSeq([k \in DOMAIN pf_page |-> k],
              LAMBDA k : pf_page[k].box.y = y)

\* the plain-text box holds ten characters in two visual rows: five on
\* the upper baseline and then five on the lower one, next to each other
\* in page order
TenCharactersInTwoRows ==
    /\ Cardinality(CharsOfRegion(2)) = 10
    /\ Len(RowOf(40)) = 5
    /\ Len(RowOf(28)) = 5
    /\ \A k \in CharsOfRegion(2) \ {RowOf(40)[1]} : k - 1 \in CharsOfRegion(2)
    /\ RowOf(40)[5] < RowOf(28)[1]

\* the paragraphs holding a character of region id
ParagraphsOfRegion(id) ==
    { p \in DOMAIN pf_paragraphs :
        \E l \in DOMAIN pf_paragraphs[p] :
            \E k \in DOMAIN pf_paragraphs[p][l] :
                pf_paragraphs[p][l][k] \in CharsOfRegion(id) }

TwoParagraphsTwoLines ==
    /\ Len(pf_paragraphs) = 2
    /\ \A p \in ParagraphsOfRegion(2) : Len(pf_paragraphs[p]) = 2

OneXObject(id) ==
    \A j, k \in CharsOfRegion(id) : pf_page[j].xobj_id = pf_page[k].xobj_id

TextChars ==
    SelectSeq([k \in DOMAIN pf_page |-> k],
              LAMBDA k : /\ is_text_layout(get_layout(pf_page[k]))
                         /\ ~is_isolated_formula(pf_page[k]))

\* the paragraph character k was placed in
ParagraphOf(k) ==
    CHOOSE p \in DOMAIN pf_paragraphs :
        \E l \in DOMAIN pf_paragraphs[p] :
            \E j \in DOMAIN pf_paragraphs[p][l] : pf_paragraphs[p][l][j] = k

\* C16: when create_paragraphs has returned, two consecutive text-layout
\* characters of the page that differ in layout-region id or in XObject id
\* are in different paragraphs, also when the second starts a new line.
C16_BoundaryStartsParagraph ==
    pf_pc = "created" =>
        \A i \in 1..(Len(TextChars) - 1) :
            LET c1 == TextChars[i]
                c2 == TextChars[i + 1]
            IN (\/ get_layout(pf_page[c1]).id # get_layout(pf_page[c2]).id
                \/ pf_page[c1].xobj_id # pf_page[c2].xobj_id)
                    => ParagraphOf(c1) # ParagraphOf(c2)


\* the events of type "finish" or "error" handed to finish_callback
TerminalEvents ==
    SelectSeq(tr_events, LAMBDA e : e.type \in {"finish", "error"})

\* C17: in a run with a cancel event that the caller never cancels and that
\* completes successfully, finish_callback receives exactly one terminal
\* event, of type "finish", and no "error" event, and the cancel event is
\* never set by the pipeline itself.
C17_OneFinishEvent ==
    ( /\ tr_pc = "end"
      /\ tr_result = "returned"
      /\ tr_cancelled_at = "never"
      /\ ~pm_disable ) =>
        /\ Len(TerminalEvents) = 1
        /\ TerminalEvents[1].type = "finish"
        /\ \A k \in DOMAIN tr_events : tr_events[k].type # "error"
        /\ ~cancel_event

\* the box retypeset's expansion step gives the paragraph: the box at entry
\* with its right edge moved to the free space's end
ExpandedBox ==
    [ts_box_in EXCEPT !.x2 = get_max_right_space(ts_box_in, ts_page)]

\* C18: once the first layout attempt of the first retypeset call has
\* overflowed and there is free space to the right of the paragraph, the
\* paragraph's box is the expanded box, whose right edge is the minimum of
\* 0.9 times the crop box's x2 and the left edge of the nearest vertically
\* overlapping box to the right, and the box the call lays its next attempts
\* out in is that expanded box.
C18_NextAttemptInExpandedBox ==
    ( /\ ts_pc = "while"
      /\ ts_calls = 1
      /\ expand_space_flag
      /\ ExpandedBox.x2 > ts_box_in.x2 ) =>
        /\ paragraph_box = ExpandedBox
        /\ ts_box = ExpandedBox

\* a step of the fit search inside one call of retypeset
SearchStep == ts_pc = "while" /\ ts_pc' = "while" /\ ts_calls' = ts_calls

\* C19 as stated: in retypeset's fit search the floor of the line spacing is
\* lowered from 1.4 to 1.1 only when the scale has dropped below 0.6, the
\* search goes on with line spacing 1.5 at that reduced scale, and the scale
\* never grows during the search.  Violated: the floor is lowered when the
\* scale falls below 0.7, and the scale is then set back to 1.0.
C19_FloorRelaxed_AsStated ==
    [][SearchStep =>
          /\ min_line_spacing' # min_line_spacing =>
                /\ min_line_spacing = 14
                /\ min_line_spacing' = 11
                /\ ScaleLT(scale', 60)
                /\ line_spacing' = InitialLineSpacing
          /\ scale'.n <= scale.n]_vars

\* C19 (amended): the floor of the line spacing is lowered, from 1.4 to 1.1,
\* exactly when the scale falls below 0.7, which is the step after the
\* attempt at scale 0.75 and line spacing 1.4; the search then starts again
\* at scale 1.0 and line spacing 1.5; this is the only step of the search
\* at which the scale grows, and it happens at most once in a call.
C19_FloorRelaxed ==
    /\ [](ts_relaxations <= 1)
    /\ [][SearchStep =>
            /\ min_line_spacing' # min_line_spacing =>
                  /\ min_line_spacing = 14
                  /\ min_line_spacing' = 11
                  /\ scale.n = 75
                  /\ line_spacing = 14
                  /\ scale' = InitialScale
                  /\ line_spacing' = InitialLineSpacing
            /\ scale'.n > scale.n => min_line_spacing' # min_line_spacing
            /\ (scale.n = 75 /\ line_spacing = 14 /\ min_line_spacing = 14
                    /\ scale' # scale)
                  => min_line_spacing' = 11]_vars

C19_Witness ==
    /\ ts_pc = "while"
    /\ ts_calls = 1
    /\ ts_relaxations = 1
    /\ min_line_spacing = 11
    /\ scale = InitialScale
    /\ line_spacing = InitialLineSpacing
    /\ ts_attempts = 13

\* C20: over one run every overall_progress value reported in a
\* progress_start, progress_update or progress_end event lies between 0 and
\* 100, and no reported value is smaller than the one reported before it.
C20_ProgressBoundedMonotone ==
    [][pm_nreports' # pm_nreports =>
          LET new == pm_report'.overall_progress
          IN /\ 0 <= new.n
             /\ new.n <= new.d * total_weight
             /\ pm_report # NoReport =>
                   pm_report.overall_progress.n * new.d
                       <= new.n * pm_report.overall_progress.d]_vars

RECURSIVE FlattenLines(_)
\* the characters of a list of lines, in order
FlattenLines(lines) ==
    IF lines = << >> THEN << >>
    ELSE Head(lines) \o FlattenLines(Tail(lines))

\* every character number placed by create_paragraphs, paragraph by
\* paragraph, followed by the loose characters left on the page
PlacedChars == FlattenLines(AllLines(pf_paragraphs)) \o skip_chars

\* C30: when create_paragraphs has returned, every character of
\* page.pdf_character is either in exactly one Line of exactly one paragraph
\* or in the page's remaining loose characters, never in both and never
\* twice; the loose ones are those outside a text layout or skipped as
\* isolated formula glyphs, and inside each paragraph the characters are in
\* page order.
C30_CharactersConserved ==
    pf_pc = "created" =>
        /\ Len(PlacedChars) = Len(pf_page)
        /\ \A k \in DOMAIN pf_page :
              Cardinality({ i \in DOMAIN PlacedChars : PlacedChars[i] = k }) = 1
        /\ \A k \in DOMAIN pf_page :
              (\E i \in DOMAIN skip_chars : skip_chars[i] = k)
                  <=> (\/ ~is_text_layout(get_layout(pf_page[k]))
                       \/ is_isolated_formula(pf_page[k]))
        /\ \A p \in DOMAIN pf_paragraphs :
              LET cs == FlattenLines(pf_paragraphs[p])
              IN /\ cs # << >>
                 /\ \A i \in 1..(Len(cs) - 1) : cs[i] < cs[i + 1]
                 /\ \A l \in DOMAIN pf_paragraphs[p] :
                       pf_paragraphs[p][l] # << >>

C30_Witness ==
    /\ pf_pc = "created"
    /\ Len(pf_page) = 7
    /\ Len(skip_chars) = 1
    /\ Len(pf_paragraphs) = 2
    /\ Len(pf_paragraphs[1]) = 1
    /\ Len(pf_paragraphs[2]) = 1
    /\ Len(pf_paragraphs[2][1]) = 5

\* C21: when ILTranslator.translate has finished and no task was cancelled
\* (every paragraph's task ran its body to the end), the "Translate
\* Paragraphs" stage counter equals the number of paragraphs: every task
\* advanced it once and no advance made by another worker thread was lost.
C21_CounterEqualsParagraphs ==
    ( /\ tr_pc \in {"watermark", "typeset"}
      /\ \A p \in Paras : tk_state[p] = "done" )
        => pbar_current = NumParas

\* The unit placed at position k of the layout opens a line: it is the
\* first unit placed, or it lies on another baseline than the unit placed
\* before it.
FirstOnLine(tu, k) == k = 1 \/ tu[k].y # tu[k - 1].y

\* The unit placed at position k closes a line that another line follows.
LastOnLine(tu, k) == k < Len(tu) /\ tu[k + 1].y # tu[k].y

\* C24: in every layout produced by _layout_typesetting_units the first
\* unit placed on each line is not a space, on the first line of a
\* paragraph with a first line indent and on every line started by a wrap.
C24_NoLineStartsWithSpace ==
    ly_pc = "returned" =>
        \A k \in DOMAIN ly_st.typeset_units :
            FirstOnLine(ly_st.typeset_units, k) =>
                ~is_space(ly_units[ly_st.typeset_units[k].unit])

\* C25: in every layout produced by _layout_typesetting_units an opening
\* bracket or opening quote is never the last unit placed on a line that is
\* followed by another line, whatever the width of the unit after it.
C25_NoOpeningBracketAtLineEnd ==
    ly_pc = "returned" =>
        \A k \in DOMAIN ly_st.typeset_units :
            LastOnLine(ly_st.typeset_units, k) =>
                ~is_cannot_appear_in_line_end_punctuation(
                    ly_units[ly_st.typeset_units[k].unit])

\* The tokens of placeholder k.
TokensOf(k) ==
    {ph_placeholders[k].tokens[t] : t \in DOMAIN ph_placeholders[k].tokens}

\* The ids from `from` up to the one chosen were all passed over because
\* one of their tokens occurs in paragraph.unicode.
Probed(from, placeholder) ==
    \A id \in from..(placeholder.id - 1) :
        IF placeholder.kind = "formula"
           THEN IsSubstring(FormulaToken(ph_engine, id), ph_unicode)
           ELSE RichTextTaken(ph_engine, id, ph_unicode)

\* C29: every placeholder token made by get_translate_input (formula
\* token, left and right rich text token) is not a substring of
\* paragraph.unicode; the tokens of the placeholders of one paragraph are
\* pairwise different; and the search for a free id ends: it passes over an
\* id only when a token of that id occurs in paragraph.unicode, so it makes
\* at most as many probes as paragraph.unicode has characters.
C29_PlaceholderTokensFree ==
    /\ [](\A k \in DOMAIN ph_placeholders : \A t \in TokensOf(k) :
             ~IsSubstring(t, ph_unicode))
    /\ [](\A k, l \in DOMAIN ph_placeholders :
             /\ k # l => TokensOf(k) \cap TokensOf(l) = {}
             /\ Cardinality(TokensOf(k)) = Len(ph_placeholders[k].tokens))
    /\ [][Len(ph_placeholders') = Len(ph_placeholders) + 1 =>
             LET placeholder == ph_placeholders'[Len(ph_placeholders')]
             IN  /\ placeholder.id >= ph_placeholder_id
                 /\ Probed(ph_placeholder_id, placeholder)
                 /\ placeholder.id - ph_placeholder_id <= Len(ph_unicode)]_vars

\* A formula and a run in another style, both past their first id: the
\* formula's first token and the run's right token occur in the text.
C29_Witness ==
    /\ ph_pc = "returned"
    /\ Len(ph_placeholders) = 2
    /\ ph_placeholders[1].kind = "formula"
    /\ ph_placeholders[1].id = 2
    /\ ph_placeholders[2].kind = "rich_text"
    /\ ph_placeholders[2].id = 4
    /\ RichTextTaken(ph_engine, 3, ph_unicode)


\* C27: after a Q that matches an earlier q, and after an on_xobj_end
\* (which matches its on_xobj_begin), the current passthrough
\* per-character instruction list equals the list held at that q or
\* on_xobj_begin; a Q arriving with an empty stack leaves the list empty.
C27_RestoredAtMatchingPop ==
    /\ ic_last.closed.kind # "none" =>
          passthrough_per_char_instruction = ic_last.closed.held
    /\ ic_last.call = "Q" /\ ic_last.empty =>
          passthrough_per_char_instruction = << >>

\* C28: across the pages of one document every on_xobj_begin returns an id
\* strictly greater than every id returned before it, and after
\* on_xobj_end the current xobj id is the one of the enclosing scope (the
\* id the enclosing form XObject was given, 0 at page level).
C28_XobjIdsFresh ==
    /\ \A i, j \in DOMAIN ic_returned : i < j => ic_returned[i] < ic_returned[j]
    /\ ic_last.call = "on_xobj_begin" => xobj_id = ic_returned[Len(ic_returned)]
    /\ ic_last.call = "on_xobj_end" =>
          /\ xobj_id = ic_last.closed.xobj_id
          /\ InnermostXobj(ic_scopes) = 0 => xobj_id = 0

\* The third form XObject of the document, nested in the second one, has
\* just ended.
C28_Witness ==
    /\ ic_last.call = "on_xobj_end"
    /\ Len(ic_returned) = 3
    /\ InnermostXobj(ic_scopes) # 0
    /\ xobj_id = ic_returned[2]
    /\ xobj_stack = << 0 >>

\* The text holds digits, spaces and commas only.
OnlyDigitsSpacesCommas(text) ==
    text # << >> /\ \A i \in DOMAIN text : text[i] \in {"1", ",", " "}

\* C26: process_translatable_formulas turns a Formula into an ordinary
\* text Line exactly when its text consists only of digits, spaces and
\* commas and the absolute value of its y_offset is at most 0.1; a
\* digits-only formula clearly above or clearly below the baseline stays a
\* Formula.
C26_PromotedExactlyWhenOnBaseline ==
    tf_pc = "returned" =>
        \A k \in DOMAIN tf_paragraph :
            tf_paragraph[k].kind = "pdf_formula" =>
                ( tf_result[k].kind = "pdf_line"
                    <=> /\ OnlyDigitsSpacesCommas(tf_paragraph[k].text)
                        /\ tf_paragraph[k].y_offset >= -10
                        /\ tf_paragraph[k].y_offset <= 10 )

\* The characters of a composition list, in order.
CompositionChars(compositions) ==
    Flatten([k \in DOMAIN compositions |-> compositions[k].chars])

\* C22: process_comma_formulas preserves characters: whatever formulas of
\* the paragraph are split, with leading, trailing or consecutive top-level
\* commas too, the characters of all compositions in order are the same
\* sequence after the call as before it.
C22_CommaSplitPreservesCharacters ==
    cf_pc = "returned" =>
        CompositionChars(cf_result) = CompositionChars(cf_paragraph)

\* The values that occur most often in a list.
MostFrequent(vals) ==
    {vals[i] : i \in {k \in DOMAIN vals :
        \A j \in DOMAIN vals :
            Occurrences(vals, vals[k]) >= Occurrences(vals, vals[j])}}

FontIdsOf(ss) == [i \in DOMAIN ss |-> ss[i].font_id]

FontSizesOf(ss) == [i \in DOMAIN ss |-> ss[i].font_size]

\* Two styles that are the same up to 0.02pt of font size.
SameBaseStyle(s, t) ==
    /\ s.font_id = t.font_id
    /\ Fabs(s.font_size - t.font_size) < 20
    /\ s.graphic_state = t.graphic_state

\* C23: _calculate_base_style returns, attribute by attribute (font id,
\* font size within 0.02pt, each graphic-state field), the value all
\* characters of the paragraph's lines share when they agree; for font id
\* and font size it returns the most frequent value among those characters
\* when they do not agree; and the result is the same for every order of
\* the characters.
C23_BaseStyleIsConsensusOrMode ==
    bs_pc = "returned" =>
        LET ids == FontIdsOf(styles)
            sizes == FontSizesOf(styles)
            idsAgree == \A i, j \in DOMAIN styles : ids[i] = ids[j]
            sizesAgree == \A i, j \in DOMAIN styles : Fabs(sizes[i] - sizes[j]) < 20
        IN  /\ idsAgree => base_style.font_id = ids[1]
            /\ sizesAgree =>
                  \A i \in DOMAIN styles : Fabs(base_style.font_size - sizes[i]) < 20
            /\ (\A i, j \in DOMAIN styles :
                   styles[i].graphic_state.linewidth = styles[j].graphic_state.linewidth)
                  => base_style.graphic_state.linewidth = styles[1].graphic_state.linewidth
            /\ (\A i, j \in DOMAIN styles :
                   styles[i].graphic_state.ncolor = styles[j].graphic_state.ncolor)
                  => base_style.graphic_state.ncolor = styles[1].graphic_state.ncolor
            /\ ~idsAgree => base_style.font_id \in MostFrequent(ids)
            /\ ~sizesAgree => base_style.font_size \in MostFrequent(sizes)
            /\ \A p \in Permutations(DOMAIN styles) :
                  SameBaseStyle(calculate_base_style([i \in DOMAIN styles |-> styles[p[i]]]),
                                base_style)
=============================================================================
